---------------------------- MODULE Spec2Model ----------------------------
(***************************************************************************)
(* Model of the multiqueue_experiments benchmark harness:                  *)
(*   - the parallel SSSP solver (benchmarks/shortest_path.cpp) with its    *)
(*     idle/termination protocol,                                          *)
(*   - the throughput driver (src/throughput.cpp),                         *)
(*   - the MultiQueue the two drive.  The queue's own sources              *)
(*     (multiqueue/*.hpp) and utils/thread_coordination.hpp are not part   *)
(*     of the source tree at hand; they are modelled from the design       *)
(*     document (sections 4.1 and 4.3).                                    *)
(***************************************************************************)
EXTENDS Integers, Sequences, FiniteSets, TLC

(***************************************************************************)
(* Bounds of the model.                                                    *)
(***************************************************************************)
\* largest worker count the SSSP / throughput runs are started with
MaxThreads == 2
\* over-provisioning factor of the MultiQueue: M = C * N internal queues
C == 1
\* capacity of a handle's insertion buffer / deletion buffer
InsertionBufferSize == 1
DeletionBufferSize == 1
\* shortest_path.cpp:30 sets retries = 400; the retry loop is run with this
\* scaled-down count
retries == 1
\* width of std::uint32_t (distances, keys), scaled down
DistBits == 4
\* width of std::size_t (idle_counter), scaled down
SizeBits == 4

DistMod == 2 ^ DistBits
SizeMod == 2 ^ SizeBits
\* std::numeric_limits<std::uint32_t>::max() - 1
InfDistance == DistMod - 2

Threads(n) == 0 .. (n - 1)
AllThreads == Threads(MaxThreads)

(***************************************************************************)
(* Sorted sequences of <<key, value>> pairs: the content of one internal   *)
(* priority queue (a min-heap; only its multiset and its minimum matter).  *)
(***************************************************************************)
ElemLess(a, b) == a[1] < b[1] \/ (a[1] = b[1] /\ a[2] < b[2])

RECURSIVE SortedInsert(_, _)
SortedInsert(s, e) ==
    IF s = << >> THEN << e >>
    ELSE IF ElemLess(e, Head(s)) THEN << e >> \o s
    ELSE << Head(s) >> \o SortedInsert(Tail(s), e)

RECURSIVE InsertAll(_, _)
InsertAll(s, es) ==
    IF es = << >> THEN s ELSE InsertAll(SortedInsert(s, Head(es)), Tail(es))

\* a pop_min that leaves the pair in the heap
RemoveAtMut(s, k) == s

RemoveAt(s, k) == SubSeq(s, 1, k - 1) \o SubSeq(s, k + 1, Len(s))

\* positions of the elements a pop_min may return: ties on the minimal key
\* are broken arbitrarily
MinPositions(s) == { k \in 1 .. Len(s) : s[k][1] = s[1][1] }


(***************************************************************************)
(* State.                                                                  *)
(***************************************************************************)
VARIABLES
    \* ---- shared by the three programs ----
    config,                 \* the MultiQueue variant the build selects
    num_threads,            \* Settings::num_threads / the run's worker count
    pc,                     \* position of every worker in its code
    ipq,                    \* the M internal priority queues (sorted sequences)
    ins_buf,                \* per handle: insertion buffer
    del_buf,                \* per handle: deletion buffer (sorted)
    scan,                   \* per handle: position of the empty-protocol scan
    retval,                 \* per worker: the pair the last successful pop gave
    \* ---- shortest_path.cpp ----
    graph,                  \* Graph{nodes, edges} in CSR form
    distances,              \* std::vector<Distance>
    idle_state,             \* IdleState[] : 0 active, 1 probing, 2 idle, 3 wakeup
    idle_counter,           \* std::atomic_size_t idle_counter
    current_distance,       \* per worker local
    edge_i,                 \* per worker: loop index i over graph.edges
    pushed,                 \* per worker local
    old_target_distance,    \* per worker local
    wake_i,                 \* per worker: loop index i of the waking loop
    retry_i,                \* per worker: loop index i of the retry loop
    num_local_processed_nodes,  \* per worker: the nodes it processed (line 109)
    pushes,                 \* history: how often each pair << d, v >> was pushed
    wakes,                  \* history, per worker and idle episode: the number
                            \* of successful exchanges 2 -> 3 on its state, of
                            \* fetch_sub(2) and of stores of 0 by its wakers
    probe_set,              \* history, per worker: the pairs the queue held
                            \* when its extract_from_partition began that have
                            \* not been popped since
    returned_true,          \* history: some idle() call has returned true
    owed,                   \* history: per worker, work was pushed while it was idle
                            \* and it has not left idle() since
    \* ---- throughput.cpp ----
    settings,               \* Settings (num_threads is the variable above)
    exit_code,              \* main: "start", "running", "exit0", "exit1"
    keys,                   \* std::vector<key_type> keys
    cursor,                 \* the shared atomic cursor of the blockwise dispatch
    blk_i,                  \* per worker: index i inside the claimed block
    blk_end,                \* per worker: start_index + count of the block
    block_size,             \* the block size of the blockwise dispatch
    claimed,                \* history, per worker: the blocks << lo, count >>
                            \* its f was called with
    push_log,               \* history, per worker: the key indices it pushed in
                            \* the measured phase
    prefill_i,              \* per worker: loop index i of prefill
    num_pops,               \* per worker: local num_pops of execute_split_pop
    result_num_pops,        \* Result::num_pops
    assert_failed,          \* history: the assertion of line 230 failed
    measured_pushes,        \* history: pushes of the measured phase
    measured_pops,          \* history: successful pops of the measured phase
    \* ---- a client of the MultiQueue alone ----
    all_pushed,             \* history: every pair a push was called with (sorted)
    all_popped,             \* history: every pair a pop has returned (sorted)
    seen_empty,             \* history, per handle: during the pop in progress
                            \* there was an instant with every internal queue empty
    empty_unwitnessed,      \* history: a pop returned empty without such an instant
    \* ---- throughput.cpp, Result::update_work_time ----
    work_time,              \* per worker: the pair << start, end >> it reports
    start_time,             \* Result::start_time
    end_time,               \* Result::end_time
    old_start,              \* per worker local
    old_end,                \* per worker local
    \* ---- throughput.cpp, generate_workload in two runs ----
    key_run,                \* what the two runs agree on: seed, id, distribution,
                            \* min_key, max_key, elements_per_thread
    key_threads,            \* per run: Settings::num_threads
    key_rng,                \* per run: the state of the worker's rng
    key_out,                \* per run: the worker's slice of keys, as far as written
    \* ---- stress_test.cpp ----
    stress_build,           \* "Throughput" or "Quality": the macro the build defines
    stress_settings,        \* Settings: prefill_size, min_num_delete_operations
    main_pc,                \* position of main
    notified,               \* the coordinator has been notified
    start_flag,             \* std::atomic_bool start_flag
    stop_flag,              \* std::atomic_bool stop_flag
    num_delete_operations,  \* std::atomic_size_t num_delete_operations
    stress_i,               \* loop index i of the prefill loop
    num_local_insertions,   \* per worker local
    num_local_deletions,    \* per worker local
    num_local_failed_deletions, \* per worker local
    local_insertions,       \* per worker: the keys of its insertion log
    local_deletions,        \* per worker: the values of its deletion log
    num_insertions,         \* std::atomic_size_t num_insertions
    num_deletions,          \* std::atomic_size_t num_deletions
    num_failed_deletions,   \* std::atomic_size_t num_failed_deletions
    ops_after_stop,         \* history, per worker: the operations it has started
                            \* after the store to stop_flag
    clock,                  \* the last value get_tick_realtime() returned
    insertion_ticks,        \* per worker: the ticks of its insertion log
    deletion_ticks,         \* per worker: the ticks of its deletion log
    \* ---- stress_test.cpp, the packing of the quality log's values ----
    pack_threads,           \* Settings::num_threads
    pack_in,                \* two pairs << thread_id, elem_id >>
    pack_value,             \* per pair: to_value(thread_id, elem_id), once computed
    pack_out,               \* per pair: << get_thread_id(value), get_elem_id(value) >>
    \* ---- the internal priority queues under their try-locks ----
    heap,                   \* per internal queue: its keys, ascending
    top_key,                \* per internal queue: the top-key cache
    lock,                   \* per internal queue: the handle that holds the
                            \* try-lock, -1 when it is free
    held,                   \* per handle: the internal queue it works on
    seen,                   \* per handle: the top key it read from the cache
    heap_ops,               \* the number of operations started
    \* ---- wrapper/linden.cpp ----
    linden_pq,              \* the underlying queue pq_: its pairs << key, value >>,
                            \* ascending
    linden_ret,             \* the last try_pop: what it returned, retval and the
                            \* key deletemin_key reported
    linden_pending          \* history: the pairs pushed and not yet returned by a
                            \* successful try_pop, ascending

queueVars == << ipq, ins_buf, del_buf, scan >>
ssspCore == << graph, distances, idle_state, idle_counter, current_distance,
               edge_i, pushed, old_target_distance, wake_i, retry_i,
               returned_true, owed >>
histVars == << num_local_processed_nodes, pushes, wakes, probe_set >>
ssspVars == << ssspCore, histVars >>
tpVars == << settings, exit_code, keys, cursor, blk_i, blk_end, block_size,
             claimed, push_log, prefill_i,
             num_pops, result_num_pops, assert_failed, measured_pushes,
             measured_pops >>
mqVars == << all_pushed, all_popped, seen_empty, empty_unwitnessed >>
timeVars == << work_time, start_time, end_time, old_start, old_end >>
\* the variables of the programs further down
keyVars == << key_run, key_threads, key_rng, key_out >>
stressVars == << stress_build, stress_settings, main_pc, notified, start_flag,
                stop_flag, num_delete_operations, stress_i,
                num_local_insertions, num_local_deletions,
                num_local_failed_deletions, local_insertions, local_deletions,
                num_insertions, num_deletions, num_failed_deletions,
                ops_after_stop, clock, insertion_ticks, deletion_ticks >>
packVars == << pack_threads, pack_in, pack_value, pack_out >>
lockVars == << heap, top_key, lock, held, seen, heap_ops >>
lindenVars == << linden_pq, linden_ret, linden_pending >>
restVars == << timeVars, keyVars, stressVars, packVars, lockVars, lindenVars >>
vars == << num_threads, config, pc, retval, queueVars, ssspVars, tpVars, mqVars,
           restVars >>

\* what the SSSP solver / the throughput driver never touches
notSssp == << tpVars, mqVars, restVars >>
notTp == << ssspVars, mqVars, restVars >>
\* what the bare queue client never touches
notMq == << ssspVars, tpVars, restVars >>

(***************************************************************************)
(* The MultiQueue (design document, section 4.1).  One action per          *)
(* linearization step: everything a handle does to one internal queue      *)
(* under that queue's try-lock is one step; a failed try-lock only makes   *)
(* the handle draw again and is not a step.  An rng() draw is a            *)
(* nondeterministic choice, which covers the sticky reuse of an index.     *)
(***************************************************************************)
NumQueues == C * num_threads

\* util::BaseConfig: the buffering variants the build can select
Configs == { "NoBuffering", "DeleteBuffering", "InsertBuffering", "FullBuffering" }

\* room in a handle's insertion buffer / deletion buffer under the variant
InsertionCapacity ==
    IF config \in { "InsertBuffering", "FullBuffering" } THEN InsertionBufferSize
    ELSE 0
DeletionCapacity ==
    IF config \in { "DeleteBuffering", "FullBuffering" } THEN DeletionBufferSize
    ELSE 0
Queues == 0 .. (NumQueues - 1)

\* the pairs of indices a pop may sample: two distinct ones when there are two
SamplePairs ==
    IF NumQueues = 1 THEN { << 0, 0 >> }
    ELSE { p \in Queues \X Queues : p[1] # p[2] }

\* random-two-choice: the sampled queue with the smaller top key, the lower
\* index on a tie; -1 when both show empty
BetterOf(q, i, j) ==
    IF q[i] = << >> /\ q[j] = << >> THEN -1
    ELSE IF q[i] = << >> THEN j
    ELSE IF q[j] = << >> THEN i
    ELSE IF q[j][1][1] < q[i][1][1] THEN j
    ELSE IF q[i][1][1] < q[j][1][1] THEN i
    ELSE IF i < j THEN i ELSE j

\* the targets a flush of handle t's insertion buffer may take
FlushTargets(t) == IF ins_buf[t] = << >> THEN { 0 } ELSE Queues

\* the queues after handle t's insertion buffer went to queue f
Flushed(t, f) == [ipq EXCEPT ![f] = InsertAll(@, ins_buf[t])]

\* push(h, key, value): into the insertion buffer while it has room, else the
\* buffer and the pair go to one internal queue
MQPush(t, e) ==
    IF Len(ins_buf[t]) < InsertionCapacity
    THEN /\ ins_buf' = [ins_buf EXCEPT ![t] = Append(@, e)]
         /\ ipq' = ipq
    ELSE \E f \in Queues :
            /\ ipq' = [ipq EXCEPT ![f] = InsertAll(@, Append(ins_buf[t], e))]
            /\ ins_buf' = [ins_buf EXCEPT ![t] = << >>]

\* under the lock of queue k of q: extract the minimum (any pair with the
\* minimal key) into retval and up to DeletionCapacity further pairs into
\* the deletion buffer
MQExtract(t, q, k) ==
    \E m \in MinPositions(q[k]) :
        LET rest == RemoveAt(q[k], m)
            n == IF Len(rest) < DeletionCapacity THEN Len(rest)
                 ELSE DeletionCapacity
        IN /\ retval' = [retval EXCEPT ![t] = q[k][m]]
           /\ del_buf' = [del_buf EXCEPT ![t] = SubSeq(rest, 1, n)]
           /\ ipq' = [q EXCEPT ![k] = SubSeq(rest, n + 1, Len(rest))]

\* first step of try_pop / extract_top: flush the insertion buffer, serve
\* from the deletion buffer, else sample two queues; when both show empty
\* the empty protocol starts (pc goes to scanpc)
MQPopStart(t, hitpc, scanpc) ==
    \E f \in FlushTargets(t) :
        LET q == Flushed(t, f) IN
        /\ ins_buf' = [ins_buf EXCEPT ![t] = << >>]
        /\ IF del_buf[t] # << >>
           THEN /\ retval' = [retval EXCEPT ![t] = Head(del_buf[t])]
                /\ del_buf' = [del_buf EXCEPT ![t] = Tail(@)]
                /\ ipq' = q
                /\ scan' = scan
                /\ pc' = [pc EXCEPT ![t] = hitpc]
           ELSE \E p \in SamplePairs :
                    LET b == BetterOf(q, p[1], p[2]) IN
                    IF b = -1
                    THEN /\ ipq' = q
                         /\ scan' = [scan EXCEPT ![t] = 0]
                         /\ pc' = [pc EXCEPT ![t] = scanpc]
                         /\ UNCHANGED << retval, del_buf >>
                    ELSE /\ MQExtract(t, q, b)
                         /\ scan' = scan
                         /\ pc' = [pc EXCEPT ![t] = hitpc]

\* first step of extract_from_partition: as try_pop, without the sampling
MQPartitionStart(t, hitpc, scanpc) ==
    \E f \in FlushTargets(t) :
        LET q == Flushed(t, f) IN
        /\ ins_buf' = [ins_buf EXCEPT ![t] = << >>]
        /\ ipq' = q
        /\ IF del_buf[t] # << >>
           THEN /\ retval' = [retval EXCEPT ![t] = Head(del_buf[t])]
                /\ del_buf' = [del_buf EXCEPT ![t] = Tail(@)]
                /\ scan' = scan
                /\ pc' = [pc EXCEPT ![t] = hitpc]
           ELSE /\ scan' = [scan EXCEPT ![t] = 0]
                /\ pc' = [pc EXCEPT ![t] = scanpc]
                /\ UNCHANGED << retval, del_buf >>

\* one step of the empty protocol: lock queue scan[t] and look at its true
\* top; a pair is returned, else the scan moves on; after the last queue the
\* pop returns empty
MQScanStep(t, hitpc, emptypc) ==
    LET k == scan[t] IN
    /\ ins_buf' = ins_buf
    /\ IF ipq[k] # << >>
       THEN /\ MQExtract(t, ipq, k)
            /\ scan' = [scan EXCEPT ![t] = 0]
            /\ pc' = [pc EXCEPT ![t] = hitpc]
       ELSE /\ scan' = [scan EXCEPT ![t] = IF k + 1 = NumQueues THEN 0
                                           ELSE k + 1]
            /\ pc' = [pc EXCEPT ![t] = IF k + 1 = NumQueues THEN emptypc
                                       ELSE pc[t]]
            /\ UNCHANGED << retval, del_buf, ipq >>

\* every pair the queue holds: the internal queues and the handles' buffers
RECURSIVE ConcatAll(_, _)
ConcatAll(f, S) ==
    IF S = {} THEN << >>
    ELSE LET x == CHOOSE y \in S : TRUE
         IN f[x] \o ConcatAll(f, S \ {x})

QueueContent ==
    InsertAll(InsertAll(InsertAll(<< >>, ConcatAll(ipq, Queues)),
                        ConcatAll(ins_buf, Threads(num_threads))),
              ConcatAll(del_buf, Threads(num_threads)))


(***************************************************************************)
(* benchmarks/shortest_path.cpp                                            *)
(***************************************************************************)
\* Graphs in the CSR form read_graph builds: the out-edges of node u are
\* edges[nodes[u] .. nodes[u+1]-1] (0-based in the code, 1-based sequences
\* here), an edge is <<target, weight>>.
GraphDiamond ==
    \* 0 ->(3) 1, 0 ->(1) 2, 2 ->(1) 1, 1 ->(0) 0
    [ nodes |-> << 0, 2, 3, 4 >>,
      edges |-> << << 1, 3 >>, << 2, 1 >>, << 0, 0 >>, << 1, 1 >> >> ]

GraphHeavy ==
    \* 0 ->(13) 1, 0 ->(3) 2, 1 ->(5) 2 : the path over the heavy arc is longer
    \* than the largest distance
    [ nodes |-> << 0, 2, 3, 3 >>,
      edges |-> << << 1, 13 >>, << 2, 3 >>, << 2, 5 >> >> ]

GraphChain ==
    \* 0 ->(1) 1, 1 ->(1) 2
    [ nodes |-> << 0, 1, 2, 2 >>,
      edges |-> << << 1, 1 >>, << 2, 1 >> >> ]

Graphs == { GraphDiamond, GraphHeavy }

NumNodes(g) == Len(g.nodes) - 1
Nodes(g) == 0 .. (NumNodes(g) - 1)
\* graph.nodes[u], graph.edges[i] with the code's 0-based indices
NodeOffset(g, u) == g.nodes[u + 1]
EdgeAt(g, i) == g.edges[i + 1]

\* main: the worker counts 1, 2, 4, ... up to settings.num_threads
RECURSIVE ThreadCounts(_)
ThreadCounts(n) == IF n > MaxThreads THEN {} ELSE {n} \cup ThreadCounts(2 * n)

\* main, lines 287-298: the state in which the workers of one run start
SsspStart(n, cfg, g) ==
    /\ num_threads = n
    /\ config = cfg
    /\ graph = g
    /\ distances = [v \in Nodes(graph) |-> InfDistance]
    /\ idle_counter = 0
    /\ idle_state = [t \in Threads(num_threads) |-> 0]
    /\ ipq = [k \in Queues |-> << >>]
    /\ ins_buf = [t \in Threads(num_threads) |-> << >>]
    /\ del_buf = [t \in Threads(num_threads) |-> << >>]
    /\ scan = [t \in Threads(num_threads) |-> 0]
    /\ pc = [t \in Threads(num_threads) |-> "begin"]
    /\ retval = [t \in Threads(num_threads) |-> << 0, 0 >>]
    /\ current_distance = [t \in Threads(num_threads) |-> 0]
    /\ edge_i = [t \in Threads(num_threads) |-> 0]
    /\ pushed = [t \in Threads(num_threads) |-> FALSE]
    /\ old_target_distance = [t \in Threads(num_threads) |-> 0]
    /\ wake_i = [t \in Threads(num_threads) |-> 0]
    /\ retry_i = [t \in Threads(num_threads) |-> 0]
    /\ returned_true = FALSE
    /\ owed = [t \in Threads(num_threads) |-> FALSE]
    /\ num_local_processed_nodes = [t \in Threads(num_threads) |-> 0]
    /\ pushes = << >>
    /\ wakes = [t \in Threads(num_threads) |-> << 0, 0, 0 >>]
    /\ probe_set = [t \in Threads(num_threads) |-> {}]

\* the variables of the SSSP solver while another program runs
SsspIdle ==
    /\ graph = << >>
    /\ distances = << >>
    /\ idle_state = << >>
    /\ idle_counter = 0
    /\ current_distance = << >>
    /\ edge_i = << >>
    /\ pushed = << >>
    /\ old_target_distance = << >>
    /\ wake_i = << >>
    /\ retry_i = << >>
    /\ returned_true = FALSE
    /\ owed = << >>
    /\ num_local_processed_nodes = << >>
    /\ pushes = << >>
    /\ wakes = << >>
    /\ probe_set = << >>

\* the variables of the throughput driver while another program runs
TpIdle ==
    /\ settings = << >>
    /\ exit_code = "start"
    /\ keys = << >>
    /\ cursor = 0
    /\ blk_i = << >>
    /\ blk_end = << >>
    /\ block_size = 0
    /\ claimed = << >>
    /\ push_log = << >>
    /\ prefill_i = << >>
    /\ num_pops = << >>
    /\ result_num_pops = 0
    /\ assert_failed = FALSE
    /\ measured_pushes = 0
    /\ measured_pops = 0

\* the history of the bare queue client while another program runs
MqIdle ==
    /\ all_pushed = << >>
    /\ all_popped = << >>
    /\ seen_empty = << >>
    /\ empty_unwitnessed = FALSE

\* the variables of Result::update_work_time while another program runs
TimeIdle ==
    /\ work_time = << >>
    /\ start_time = 0
    /\ end_time = 0
    /\ old_start = << >>
    /\ old_end = << >>

\* no queue exists
QueueIdle ==
    /\ config = "NoBuffering"
    /\ ipq = << >>
    /\ ins_buf = << >>
    /\ del_buf = << >>
    /\ scan = << >>
    /\ retval = << >>

\* the variables of the two compared runs while another program runs
KeyIdle ==
    /\ key_run = << >>
    /\ key_threads = << >>
    /\ key_rng = << >>
    /\ key_out = << >>

\* the variables of the stress driver while another program runs
StressIdle ==
    /\ stress_build = ""
    /\ stress_settings = << >>
    /\ main_pc = ""
    /\ notified = FALSE
    /\ start_flag = FALSE
    /\ stop_flag = FALSE
    /\ num_delete_operations = 0
    /\ stress_i = 0
    /\ num_local_insertions = << >>
    /\ num_local_deletions = << >>
    /\ num_local_failed_deletions = << >>
    /\ local_insertions = << >>
    /\ local_deletions = << >>
    /\ num_insertions = 0
    /\ num_deletions = 0
    /\ num_failed_deletions = 0
    /\ ops_after_stop = << >>
    /\ clock = 0
    /\ insertion_ticks = << >>
    /\ deletion_ticks = << >>

\* the variables of the value packing while another program runs
PackIdle ==
    /\ pack_threads = 0
    /\ pack_in = << >>
    /\ pack_value = << >>
    /\ pack_out = << >>

\* the variables of the locked internal queues while another program runs
LockIdle ==
    /\ heap = << >>
    /\ top_key = << >>
    /\ lock = << >>
    /\ held = << >>
    /\ seen = << >>
    /\ heap_ops = 0

\* the variables of the Linden wrapper while another program runs
LindenIdle ==
    /\ linden_pq = << >>
    /\ linden_ret = << >>
    /\ linden_pending = << >>

RestIdle ==
    TimeIdle /\ KeyIdle /\ StressIdle /\ PackIdle /\ LockIdle /\ LindenIdle

SsspInit ==
    /\ \E n \in ThreadCounts(1), cfg \in Configs, g \in Graphs : SsspStart(n, cfg, g)
    /\ TpIdle
    /\ MqIdle
    /\ RestIdle

\* the next worker count main runs after MaxThreads, on the chain graph with
\* the unbuffered queue
SsspWideInit ==
    SsspStart(2 * MaxThreads, "NoBuffering", GraphChain) /\ TpIdle /\ MqIdle
        /\ RestIdle

\* worker t exists and is at label l
At(t, l) == t \in Threads(num_threads) /\ pc[t] = l

Goto(t, l) == pc' = [pc EXCEPT ![t] = l]

\* ctx.is_main()
IsMain(t) == t = 0

\* history: one more push of pair e (counted up to 2)
AddPush(b, e) ==
    IF e \in DOMAIN b THEN [b EXCEPT ![e] = IF @ < 2 THEN @ + 1 ELSE @]
    ELSE (e :> 1) @@ b

\* history: one more event of kind k (1: exchange 2 -> 3, 2: fetch_sub(2),
\* 3: store of 0) in the idle episode of worker i (counted up to 2)
AddWake(w, i, k) == [w EXCEPT ![i][k] = IF @ < 2 THEN @ + 1 ELSE @]

\* the pairs the queue holds, in the internal queues and the buffers
ContentSet ==
    UNION ({ { ipq[k][j] : j \in 1 .. Len(ipq[k]) } : k \in DOMAIN ipq }
           \cup { { ins_buf[u][j] : j \in 1 .. Len(ins_buf[u]) } : u \in DOMAIN ins_buf }
           \cup { { del_buf[u][j] : j \in 1 .. Len(del_buf[u]) } : u \in DOMAIN del_buf })

\* the pairs in the internal queues
IpqSet == UNION { { ipq[k][j] : j \in 1 .. Len(ipq[k]) } : k \in DOMAIN ipq }

\* history: a worker whose extract_from_partition begins records the pairs
\* the queue holds, each with a flag that tells whether it is in an internal
\* queue (TRUE) or in a handle's buffer (FALSE); while it scans, the pairs a
\* pop returns are taken out; the record is kept until the worker has left
\* the scan
TrackProbe ==
    probe_set' = [u \in Threads(num_threads) |->
        IF pc[u] = "probe" /\ pc'[u] = "probe_scan"
        THEN { << e, e \in IpqSet' >> : e \in ContentSet' }
        ELSE IF pc[u] = "probe_scan" /\ pc'[u] \in { "probe_scan", "idle_add" }
        THEN { x \in probe_set[u] : x[1] \in ContentSet' }
        ELSE IF pc'[u] = "idle_add" THEN probe_set[u]
        ELSE {}]

\* lines 88-91: the main worker stores distance 0 for node 0 and pushes {0, 0}
Begin(t) ==
    /\ At(t, "begin")
    /\ IF IsMain(t)
       THEN /\ distances' = [distances EXCEPT ![0] = 0]
            /\ MQPush(t, << 0, 0 >>)
       ELSE UNCHANGED << distances, ipq, ins_buf >>
    /\ Goto(t, "sync")
    /\ UNCHANGED << notSssp, num_threads, config, retval, del_buf, scan, graph, idle_state,
                    idle_counter, current_distance, edge_i, pushed,
                    old_target_distance, wake_i, retry_i, returned_true, owed >>
    /\ pushes' = IF IsMain(t) THEN AddPush(pushes, << 0, 0 >>) ELSE pushes
    /\ UNCHANGED << num_local_processed_nodes, wakes >>
    /\ TrackProbe

\* lines 92-99: the barrier and the start flag
Synchronize(t) ==
    /\ At(t, "sync")
    /\ \A u \in Threads(num_threads) : pc[u] # "begin"
    /\ Goto(t, "pop")
    /\ UNCHANGED << notSssp, num_threads, config, retval, queueVars, ssspCore >>
    /\ UNCHANGED << num_local_processed_nodes, pushes, wakes >>
    /\ TrackProbe

\* line 102: pq.extract_top(handle, retval), first step
ExtractTop(t) ==
    /\ At(t, "pop")
    /\ MQPopStart(t, "found", "pop_scan")
    /\ UNCHANGED << notSssp, num_threads, config, ssspCore >>
    /\ UNCHANGED << num_local_processed_nodes, pushes, wakes >>
    /\ TrackProbe

\* line 102: pq.extract_top, the empty protocol; on empty the retry loop
\* of line 146 starts
ExtractTopScan(t) ==
    /\ At(t, "pop_scan")
    /\ MQScanStep(t, "found", "retry")
    /\ retry_i' = [retry_i EXCEPT ![t] = 0]
    /\ UNCHANGED << notSssp, num_threads, config, graph, distances, idle_state, idle_counter,
                    current_distance, edge_i, pushed, old_target_distance,
                    wake_i, returned_true, owed >>
    /\ UNCHANGED << num_local_processed_nodes, pushes, wakes >>
    /\ TrackProbe

\* lines 146-152: the retry loop; after `retries` failed pops the worker
\* stores state 1 (probing).  The loop index i exists inside the loop only:
\* it is 0 wherever the loop is left
Retry(t) ==
    /\ At(t, "retry")
    /\ IF retry_i[t] < retries
       THEN /\ MQPopStart(t, "found", "retry_scan")
            /\ UNCHANGED idle_state
       ELSE /\ idle_state' = [idle_state EXCEPT ![t] = 1]
            /\ Goto(t, "probe_add")
            /\ UNCHANGED << retval, queueVars >>
    /\ retry_i' = [retry_i EXCEPT ![t] = IF pc'[t] = "retry_scan" THEN @ ELSE 0]
    /\ UNCHANGED << notSssp, num_threads, config, graph, distances, idle_counter,
                    current_distance, edge_i, pushed, old_target_distance,
                    wake_i, returned_true, owed >>
    /\ UNCHANGED << num_local_processed_nodes, pushes, wakes >>
    /\ TrackProbe

\* lines 147-150: the empty protocol of a retry; on empty ++i and yield
RetryScan(t) ==
    /\ At(t, "retry_scan")
    /\ MQScanStep(t, "found", "retry")
    /\ retry_i' = [retry_i EXCEPT ![t] = IF pc'[t] = "retry" THEN @ + 1
                                         ELSE IF pc'[t] = "found" THEN 0 ELSE @]
    /\ UNCHANGED << notSssp, num_threads, config, graph, distances, idle_state, idle_counter,
                    current_distance, edge_i, pushed, old_target_distance,
                    wake_i, returned_true, owed >>
    /\ UNCHANGED << num_local_processed_nodes, pushes, wakes >>
    /\ TrackProbe

\* line 153: idle_counter.fetch_add(1)
ProbeAdd(t) ==
    /\ At(t, "probe_add")
    /\ idle_counter' = (idle_counter + 1) % SizeMod
    /\ Goto(t, "probe")
    /\ UNCHANGED << notSssp, num_threads, config, retval, queueVars, graph, distances,
                    idle_state, current_distance, edge_i, pushed,
                    old_target_distance, wake_i, retry_i, returned_true, owed >>
    /\ UNCHANGED << num_local_processed_nodes, pushes, wakes >>
    /\ TrackProbe

\* line 157: pq.extract_from_partition(handle, retval), first step
ExtractFromPartition(t) ==
    /\ At(t, "probe")
    /\ MQPartitionStart(t, "probe_sub", "probe_scan")
    /\ UNCHANGED << notSssp, num_threads, config, ssspCore >>
    /\ UNCHANGED << num_local_processed_nodes, pushes, wakes >>
    /\ TrackProbe

\* a scan that reports empty after the first empty internal queue
ExtractFromPartitionScanMut(t) ==
    /\ At(t, "probe_scan")
    /\ ins_buf' = ins_buf
    /\ IF ipq[scan[t]] # << >>
       THEN /\ MQExtract(t, ipq, scan[t])
            /\ pc' = [pc EXCEPT ![t] = "probe_sub"]
       ELSE /\ pc' = [pc EXCEPT ![t] = "idle_add"]
            /\ UNCHANGED << retval, del_buf, ipq >>
    /\ scan' = [scan EXCEPT ![t] = 0]
    /\ idle_state' = [idle_state EXCEPT ![t] = IF pc'[t] = "idle_add" THEN 2
                                               ELSE @]
    /\ UNCHANGED << notSssp, num_threads, config, graph, distances, idle_counter,
                    current_distance, edge_i, pushed, old_target_distance,
                    wake_i, retry_i, returned_true, owed >>
    /\ wakes' = [wakes EXCEPT ![t] = IF pc'[t] = "idle_add" THEN << 0, 0, 0 >>
                                   ELSE @]
    /\ UNCHANGED << num_local_processed_nodes, pushes >>
    /\ TrackProbe

\* line 157: the scan of extract_from_partition; on empty idle() is called
\* and stores state 2 (line 63)
ExtractFromPartitionScan(t) ==
    /\ At(t, "probe_scan")
    /\ MQScanStep(t, "probe_sub", "idle_add")
    /\ idle_state' = [idle_state EXCEPT ![t] = IF pc'[t] = "idle_add" THEN 2
                                               ELSE @]
    /\ UNCHANGED << notSssp, num_threads, config, graph, distances, idle_counter,
                    current_distance, edge_i, pushed, old_target_distance,
                    wake_i, retry_i, returned_true, owed >>
    /\ wakes' = [wakes EXCEPT ![t] = IF pc'[t] = "idle_add" THEN << 0, 0, 0 >>
                                   ELSE @]
    /\ UNCHANGED << num_local_processed_nodes, pushes >>
    /\ TrackProbe

\* a probing worker that finds work and forgets to take its 1 back
ProbeSubMut(t) ==
    /\ At(t, "probe_sub")
    /\ Goto(t, "probe_active")
    /\ UNCHANGED << notSssp, num_threads, config, retval, queueVars, ssspCore >>
    /\ UNCHANGED << num_local_processed_nodes, pushes, wakes >>
    /\ TrackProbe

\* line 159: idle_counter.fetch_sub(1)
ProbeSub(t) ==
    /\ At(t, "probe_sub")
    /\ idle_counter' = (idle_counter - 1) % SizeMod
    /\ Goto(t, "probe_active")
    /\ UNCHANGED << notSssp, num_threads, config, retval, queueVars, graph, distances,
                    idle_state, current_distance, edge_i, pushed,
                    old_target_distance, wake_i, retry_i, returned_true, owed >>
    /\ UNCHANGED << num_local_processed_nodes, pushes, wakes >>
    /\ TrackProbe

\* lines 160-161: store state 0, goto found
ProbeActive(t) ==
    /\ At(t, "probe_active")
    /\ idle_state' = [idle_state EXCEPT ![t] = 0]
    /\ Goto(t, "found")
    /\ UNCHANGED << notSssp, num_threads, config, retval, queueVars, graph, distances,
                    idle_counter, current_distance, edge_i, pushed,
                    old_target_distance, wake_i, retry_i, returned_true, owed >>
    /\ UNCHANGED << num_local_processed_nodes, pushes, wakes >>
    /\ TrackProbe

\* line 64: idle_counter.fetch_add(1) in idle()
IdleAdd(t) ==
    /\ At(t, "idle_add")
    /\ idle_counter' = (idle_counter + 1) % SizeMod
    /\ Goto(t, "idle_counter")
    /\ UNCHANGED << notSssp, num_threads, config, retval, queueVars, graph, distances,
                    idle_state, current_distance, edge_i, pushed,
                    old_target_distance, wake_i, retry_i, returned_true, owed >>
    /\ UNCHANGED << num_local_processed_nodes, pushes, wakes >>
    /\ TrackProbe

\* a comparison with num_threads instead of 2 * num_threads
AllIdleMut == idle_counter = num_threads % SizeMod

\* line 66: idle_counter.load() == 2 * num_threads
AllIdle == idle_counter = (2 * num_threads) % SizeMod

\* lines 66-68: idle_counter.load() == 2 * num_threads: return true, which
\* leaves the main loop (lines 164-165, 171)
IdleLoadCounter(t) ==
    /\ At(t, "idle_counter")
    /\ IF AllIdle
       THEN /\ Goto(t, "done")
            /\ returned_true' = TRUE
       ELSE /\ Goto(t, "idle_state")
            /\ UNCHANGED returned_true
    /\ UNCHANGED << notSssp, num_threads, config, retval, queueVars, graph, distances,
                    idle_state, idle_counter, current_distance, edge_i, pushed,
                    old_target_distance, wake_i, retry_i, owed >>
    /\ UNCHANGED << num_local_processed_nodes, pushes, wakes >>
    /\ TrackProbe

\* an idle() that returns false as soon as the state is not idle (2)
IdleLoadStateMut(t) ==
    /\ At(t, "idle_state")
    /\ Goto(t, IF idle_state[t] # 2 THEN "pop" ELSE "idle_counter")
    /\ owed' = [owed EXCEPT ![t] = IF idle_state[t] # 2 THEN FALSE ELSE @]
    /\ UNCHANGED << notSssp, num_threads, config, retval, queueVars, graph, distances,
                    idle_state, idle_counter, current_distance, edge_i, pushed,
                    old_target_distance, wake_i, retry_i, returned_true >>
    /\ wakes' = [wakes EXCEPT ![t] = IF idle_state[t] # 2 THEN << 0, 0, 0 >>
                                   ELSE @]
    /\ UNCHANGED << num_local_processed_nodes, pushes >>
    /\ TrackProbe

\* lines 69-72: idle_state[id].state.load() == 0: return false (the main
\* loop continues at line 102), else yield and loop
IdleLoadState(t) ==
    /\ At(t, "idle_state")
    /\ Goto(t, IF idle_state[t] = 0 THEN "pop" ELSE "idle_counter")
    /\ owed' = [owed EXCEPT ![t] = IF idle_state[t] = 0 THEN FALSE ELSE @]
    /\ UNCHANGED << notSssp, num_threads, config, retval, queueVars, graph, distances,
                    idle_state, idle_counter, current_distance, edge_i, pushed,
                    old_target_distance, wake_i, retry_i, returned_true >>
    /\ wakes' = [wakes EXCEPT ![t] = IF idle_state[t] = 0 THEN << 0, 0, 0 >>
                                   ELSE @]
    /\ UNCHANGED << num_local_processed_nodes, pushes >>
    /\ TrackProbe

\* a worker that relaxes the edges of every popped entry
FoundMut(t) ==
    /\ At(t, "found")
    /\ Goto(t, "relax")
    /\ current_distance' = [current_distance EXCEPT ![t] = distances[retval[t][2]]]
    /\ edge_i' = [edge_i EXCEPT ![t] = NodeOffset(graph, retval[t][2])]
    /\ pushed' = [pushed EXCEPT ![t] = FALSE]
    /\ UNCHANGED << notSssp, num_threads, config, retval, queueVars, graph, distances,
                    idle_state, idle_counter, old_target_distance, wake_i,
                    retry_i, returned_true, owed >>
    /\ num_local_processed_nodes' =
           [num_local_processed_nodes EXCEPT ![t] = @ + 1]
    /\ UNCHANGED << pushes, wakes >>
    /\ TrackProbe

\* lines 104-110: load the popped node's distance; a stale entry
\* (retval.first > current_distance) is dropped.  current_distance, pushed
\* and the loop indices are locals of this block: they hold their initial
\* values (0, FALSE) once the block has read them for the last time
Found(t) ==
    /\ At(t, "found")
    /\ LET cur == distances[retval[t][2]] IN
       /\ IF retval[t][1] > cur
          THEN /\ Goto(t, "pop")
               /\ UNCHANGED << current_distance, edge_i, pushed >>
          ELSE /\ Goto(t, "relax")
               /\ current_distance' = [current_distance EXCEPT ![t] = cur]
               /\ edge_i' = [edge_i EXCEPT ![t] = NodeOffset(graph, retval[t][2])]
               /\ pushed' = [pushed EXCEPT ![t] = FALSE]
    /\ UNCHANGED << notSssp, num_threads, config, retval, queueVars, graph, distances,
                    idle_state, idle_counter, old_target_distance, wake_i,
                    retry_i, returned_true, owed >>
    /\ num_local_processed_nodes' =
           [num_local_processed_nodes EXCEPT
                ![t] = IF pc'[t] = "relax" THEN @ + 1 ELSE @]
    /\ UNCHANGED << pushes, wakes >>
    /\ TrackProbe

\* line 113: current_distance + graph.edges[i].weight in std::uint32_t
NewTargetDistance(t) ==
    (current_distance[t] + EdgeAt(graph, edge_i[t])[2]) % DistMod

Target(t) == EdgeAt(graph, edge_i[t])[1]

\* lines 111-114 and 125-126: the head of the edge loop loads the target's
\* distance; past the last edge the worker looks at idle_counter if it pushed
Relax(t) ==
    /\ At(t, "relax")
    /\ IF edge_i[t] < NodeOffset(graph, retval[t][2] + 1)
       THEN /\ old_target_distance' =
                   [old_target_distance EXCEPT ![t] = distances[Target(t)]]
            /\ Goto(t, "cas")
            /\ UNCHANGED wake_i
            /\ UNCHANGED << current_distance, edge_i, pushed >>
       ELSE /\ IF pushed[t] /\ idle_counter > 0
               THEN /\ Goto(t, "wake")
                    /\ wake_i' = [wake_i EXCEPT ![t] = 0]
               ELSE /\ Goto(t, "pop")
                    /\ UNCHANGED wake_i
            /\ current_distance' = [current_distance EXCEPT ![t] = 0]
            /\ edge_i' = [edge_i EXCEPT ![t] = 0]
            /\ pushed' = [pushed EXCEPT ![t] = FALSE]
            /\ UNCHANGED old_target_distance
    /\ UNCHANGED << notSssp, num_threads, config, retval, queueVars, graph, distances,
                    idle_state, idle_counter, retry_i, returned_true, owed >>
    /\ UNCHANGED << num_local_processed_nodes, pushes, wakes >>
    /\ TrackProbe

\* an exchange that does not compare the old distance with the new one
CompareExchangeMut(t) ==
    /\ At(t, "cas")
    /\ IF distances[Target(t)] = old_target_distance[t]
       THEN /\ distances' = [distances EXCEPT ![Target(t)] = NewTargetDistance(t)]
            /\ Goto(t, "push")
            /\ UNCHANGED << old_target_distance, edge_i >>
       ELSE /\ old_target_distance' =
                   [old_target_distance EXCEPT ![t] = distances[Target(t)]]
            /\ UNCHANGED << distances, pc, edge_i >>
    /\ UNCHANGED << notSssp, num_threads, config, retval, queueVars, graph, idle_state,
                    idle_counter, current_distance, pushed, wake_i, retry_i,
                    returned_true, owed >>
    /\ UNCHANGED << num_local_processed_nodes, pushes, wakes >>
    /\ TrackProbe

\* a worker that pushes also when the distance was already low enough
CompareExchangePushMut(t) ==
    /\ At(t, "cas")
    /\ IF old_target_distance[t] > NewTargetDistance(t)
       THEN IF distances[Target(t)] = old_target_distance[t]
            THEN /\ distances' = [distances EXCEPT ![Target(t)] = NewTargetDistance(t)]
                 /\ Goto(t, "push")
                 /\ UNCHANGED << old_target_distance, edge_i >>
            ELSE /\ old_target_distance' =
                        [old_target_distance EXCEPT ![t] = distances[Target(t)]]
                 /\ UNCHANGED << distances, pc, edge_i >>
       ELSE /\ Goto(t, "push")
            /\ UNCHANGED << distances, old_target_distance, edge_i >>
    /\ UNCHANGED << notSssp, num_threads, config, retval, queueVars, graph, idle_state,
                    idle_counter, current_distance, pushed, wake_i, retry_i,
                    returned_true, owed >>
    /\ UNCHANGED << num_local_processed_nodes, pushes, wakes >>
    /\ TrackProbe

\* lines 115-120: one round of the compare-exchange loop.  A failed exchange
\* reloads old_target_distance; the loop is left with old > new exactly when
\* the exchange succeeded
CompareExchange(t) ==
    /\ At(t, "cas")
    /\ IF old_target_distance[t] > NewTargetDistance(t)
       THEN IF distances[Target(t)] = old_target_distance[t]
            THEN /\ distances' = [distances EXCEPT ![Target(t)] = NewTargetDistance(t)]
                 /\ Goto(t, "push")
                 /\ UNCHANGED << old_target_distance, edge_i >>
            ELSE /\ old_target_distance' =
                        [old_target_distance EXCEPT ![t] = distances[Target(t)]]
                 /\ UNCHANGED << distances, pc, edge_i >>
       ELSE /\ edge_i' = [edge_i EXCEPT ![t] = @ + 1]
            /\ old_target_distance' = [old_target_distance EXCEPT ![t] = 0]
            /\ Goto(t, "relax")
            /\ UNCHANGED distances
    /\ UNCHANGED << notSssp, num_threads, config, retval, queueVars, graph, idle_state,
                    idle_counter, current_distance, pushed, wake_i, retry_i,
                    returned_true, owed >>
    /\ UNCHANGED << num_local_processed_nodes, pushes, wakes >>
    /\ TrackProbe

\* a push whose key is one below the distance that was stored
PushMut(t) ==
    /\ At(t, "push")
    /\ MQPush(t, << (NewTargetDistance(t) + DistMod - 1) % DistMod, Target(t) >>)
    /\ pushed' = [pushed EXCEPT ![t] = TRUE]
    /\ edge_i' = [edge_i EXCEPT ![t] = @ + 1]
    /\ owed' = [i \in Threads(num_threads) |->
                    owed[i] \/ (i # t /\ idle_state[i] = 2)]
    /\ old_target_distance' = [old_target_distance EXCEPT ![t] = 0]
    /\ Goto(t, "relax")
    /\ UNCHANGED << notSssp, num_threads, config, retval, del_buf, scan, graph, distances,
                    idle_state, idle_counter, current_distance,
                    wake_i, retry_i, returned_true >>
    /\ pushes' = AddPush(pushes, << NewTargetDistance(t), Target(t) >>)
    /\ UNCHANGED << num_local_processed_nodes, wakes >>
    /\ TrackProbe

\* lines 121-122: pq.push(handle, {new_target_distance, target}); pushed = true
Push(t) ==
    /\ At(t, "push")
    /\ MQPush(t, << NewTargetDistance(t), Target(t) >>)
    /\ pushed' = [pushed EXCEPT ![t] = TRUE]
    /\ edge_i' = [edge_i EXCEPT ![t] = @ + 1]
    /\ owed' = [i \in Threads(num_threads) |->
                    owed[i] \/ (i # t /\ idle_state[i] = 2)]
    /\ old_target_distance' = [old_target_distance EXCEPT ![t] = 0]
    /\ Goto(t, "relax")
    /\ UNCHANGED << notSssp, num_threads, config, retval, del_buf, scan, graph, distances,
                    idle_state, idle_counter, current_distance,
                    wake_i, retry_i, returned_true >>
    /\ pushes' = AddPush(pushes, << NewTargetDistance(t), Target(t) >>)
    /\ UNCHANGED << num_local_processed_nodes, wakes >>
    /\ TrackProbe

\* a waker whose exchange leaves the state at 2
WakeMut(t) ==
    /\ At(t, "wake")
    /\ LET i == wake_i[t] IN
       IF i >= num_threads
       THEN /\ Goto(t, "pop")
            /\ wake_i' = [wake_i EXCEPT ![t] = 0]
            /\ UNCHANGED idle_state
       ELSE IF i = t
       THEN /\ wake_i' = [wake_i EXCEPT ![t] = i + 1]
            /\ UNCHANGED << pc, idle_state >>
       ELSE IF idle_state[i] = 2
       THEN /\ Goto(t, "wake_sub")
            /\ UNCHANGED << wake_i, idle_state >>
       ELSE IF idle_state[i] \in {0, 3}
       THEN /\ wake_i' = [wake_i EXCEPT ![t] = i + 1]
            /\ UNCHANGED << pc, idle_state >>
       ELSE /\ Goto(t, "wake_retry")
            /\ UNCHANGED << wake_i, idle_state >>
    /\ UNCHANGED << notSssp, num_threads, config, retval, queueVars, graph, distances,
                    idle_counter, current_distance, edge_i, pushed,
                    old_target_distance, retry_i, returned_true, owed >>
    /\ wakes' = IF pc'[t] = "wake_sub" THEN AddWake(wakes, wake_i[t], 1) ELSE wakes
    /\ UNCHANGED << num_local_processed_nodes, pushes >>
    /\ TrackProbe

\* a waker whose exchange also takes a probing worker's state
WakeProbingMut(t) ==
    /\ At(t, "wake")
    /\ LET i == wake_i[t] IN
       IF i >= num_threads
       THEN /\ Goto(t, "pop")
            /\ wake_i' = [wake_i EXCEPT ![t] = 0]
            /\ UNCHANGED idle_state
       ELSE IF i = t
       THEN /\ wake_i' = [wake_i EXCEPT ![t] = i + 1]
            /\ UNCHANGED << pc, idle_state >>
       ELSE IF idle_state[i] \in {1, 2}
       THEN /\ idle_state' = [idle_state EXCEPT ![i] = 3]
            /\ Goto(t, "wake_sub")
            /\ UNCHANGED wake_i
       ELSE /\ wake_i' = [wake_i EXCEPT ![t] = i + 1]
            /\ UNCHANGED << pc, idle_state >>
    /\ UNCHANGED << notSssp, num_threads, config, retval, queueVars, graph, distances,
                    idle_counter, current_distance, edge_i, pushed,
                    old_target_distance, retry_i, returned_true, owed >>
    /\ wakes' = IF pc'[t] = "wake_sub" THEN AddWake(wakes, wake_i[t], 1) ELSE wakes
    /\ UNCHANGED << num_local_processed_nodes, pushes >>
    /\ TrackProbe

\* lines 127-138: the waking loop over the workers.  The compare-exchange
\* 2 -> 3 on idle_state[i]: on success the waker goes on to line 139; on
\* failure with state 0 or 3 it goes to the next worker; on failure with
\* state 1 the loop body of lines 135-136 runs
Wake(t) ==
    /\ At(t, "wake")
    /\ LET i == wake_i[t] IN
       IF i >= num_threads
       THEN /\ Goto(t, "pop")
            /\ wake_i' = [wake_i EXCEPT ![t] = 0]
            /\ UNCHANGED idle_state
       ELSE IF i = t
       THEN /\ wake_i' = [wake_i EXCEPT ![t] = i + 1]
            /\ UNCHANGED << pc, idle_state >>
       ELSE IF idle_state[i] = 2
       THEN /\ idle_state' = [idle_state EXCEPT ![i] = 3]
            /\ Goto(t, "wake_sub")
            /\ UNCHANGED wake_i
       ELSE IF idle_state[i] \in {0, 3}
       THEN /\ wake_i' = [wake_i EXCEPT ![t] = i + 1]
            /\ UNCHANGED << pc, idle_state >>
       ELSE /\ Goto(t, "wake_retry")
            /\ UNCHANGED << wake_i, idle_state >>
    /\ UNCHANGED << notSssp, num_threads, config, retval, queueVars, graph, distances,
                    idle_counter, current_distance, edge_i, pushed,
                    old_target_distance, retry_i, returned_true, owed >>
    /\ wakes' = IF pc'[t] = "wake_sub" THEN AddWake(wakes, wake_i[t], 1) ELSE wakes
    /\ UNCHANGED << num_local_processed_nodes, pushes >>
    /\ TrackProbe

\* a waker that goes to the next worker after a failed exchange on state 1
WakeRetryMut(t) ==
    /\ At(t, "wake_retry")
    /\ wake_i' = [wake_i EXCEPT ![t] = @ + 1]
    /\ Goto(t, "wake")
    /\ UNCHANGED << notSssp, num_threads, config, retval, queueVars, graph, distances,
                    idle_state, idle_counter, current_distance, edge_i, pushed,
                    old_target_distance, retry_i, returned_true, owed >>
    /\ UNCHANGED << num_local_processed_nodes, pushes, wakes >>
    /\ TrackProbe

\* lines 135-136: thread_state = 2; yield; then the exchange of line 132 on
\* the same worker's state again
WakeRetry(t) ==
    /\ At(t, "wake_retry")
    /\ Goto(t, "wake")
    /\ UNCHANGED << notSssp, num_threads, config, retval, queueVars, graph, distances,
                    idle_state, idle_counter, current_distance, edge_i, pushed,
                    old_target_distance, wake_i, retry_i, returned_true, owed >>
    /\ UNCHANGED << num_local_processed_nodes, pushes, wakes >>
    /\ TrackProbe

\* a waker that takes back 1 instead of 2
WakeSubMut(t) ==
    /\ At(t, "wake_sub")
    /\ idle_counter' = (idle_counter - 1) % SizeMod
    /\ Goto(t, "wake_store")
    /\ UNCHANGED << notSssp, num_threads, config, retval, queueVars, graph, distances,
                    idle_state, current_distance, edge_i, pushed,
                    old_target_distance, wake_i, retry_i, returned_true, owed >>
    /\ wakes' = AddWake(wakes, wake_i[t], 2)
    /\ UNCHANGED << num_local_processed_nodes, pushes >>
    /\ TrackProbe

\* line 139: idle_counter.fetch_sub(2)
WakeSub(t) ==
    /\ At(t, "wake_sub")
    /\ idle_counter' = (idle_counter - 2) % SizeMod
    /\ Goto(t, "wake_store")
    /\ UNCHANGED << notSssp, num_threads, config, retval, queueVars, graph, distances,
                    idle_state, current_distance, edge_i, pushed,
                    old_target_distance, wake_i, retry_i, returned_true, owed >>
    /\ wakes' = AddWake(wakes, wake_i[t], 2)
    /\ UNCHANGED << num_local_processed_nodes, pushes >>
    /\ TrackProbe

\* a waker that leaves the woken worker in state 3
WakeStoreMut(t) ==
    /\ At(t, "wake_store")
    /\ wake_i' = [wake_i EXCEPT ![t] = @ + 1]
    /\ Goto(t, "wake")
    /\ UNCHANGED << notSssp, num_threads, config, retval, queueVars, graph, distances,
                    idle_state, idle_counter, current_distance, edge_i, pushed,
                    old_target_distance, retry_i, returned_true, owed >>
    /\ UNCHANGED << num_local_processed_nodes, pushes, wakes >>
    /\ TrackProbe

\* line 140: idle_state[i].state.store(0), then the next worker
WakeStore(t) ==
    /\ At(t, "wake_store")
    /\ idle_state' = [idle_state EXCEPT ![wake_i[t]] = 0]
    /\ wake_i' = [wake_i EXCEPT ![t] = @ + 1]
    /\ Goto(t, "wake")
    /\ UNCHANGED << notSssp, num_threads, config, retval, queueVars, graph, distances,
                    idle_counter, current_distance, edge_i, pushed,
                    old_target_distance, retry_i, returned_true, owed >>
    /\ wakes' = AddWake(wakes, wake_i[t], 3)
    /\ UNCHANGED << num_local_processed_nodes, pushes >>
    /\ TrackProbe

\* one step of Task::run of worker t
SsspStep(t) ==
       \/ Begin(t)
       \/ Synchronize(t)
       \/ ExtractTop(t)
       \/ ExtractTopScan(t)
       \/ Retry(t)
       \/ RetryScan(t)
       \/ ProbeAdd(t)
       \/ ExtractFromPartition(t)
       \/ ExtractFromPartitionScan(t)
       \/ ProbeSub(t)
       \/ ProbeActive(t)
       \/ IdleAdd(t)
       \/ IdleLoadCounter(t)
       \/ IdleLoadState(t)
       \/ Found(t)
       \/ Relax(t)
       \/ CompareExchange(t)
       \/ Push(t)
       \/ Wake(t)
       \/ WakeRetry(t)
       \/ WakeSub(t)
       \/ WakeStore(t)

SsspNext == \E t \in AllThreads : SsspStep(t)

SsspSpec == SsspInit /\ [][SsspNext]_vars

\* every worker is an OS thread pinned to its own core: a worker that can
\* take a step eventually takes it
SsspFairSpec == SsspSpec /\ \A t \in AllThreads : WF_vars(SsspStep(t))

\* worker t waits in the loop of idle() or has left Task::run
InIdleWait(t) == pc[t] \in { "idle_counter", "idle_state", "done" }

\* The runs of 2 * MaxThreads workers in which the last worker is scheduled
\* late: once through the barrier it is given the processor only after all
\* the other workers have gone idle on an empty queue.  These are runs of the
\* program (the scheduler is free to delay a thread), not all of them.
ScheduledLate(t) ==
    (t = 2 * MaxThreads - 1 /\ pc[t] \notin { "begin", "sync" })
        => /\ QueueContent = << >>
           /\ \A u \in Threads(num_threads) \ { t } :
                  InIdleWait(u) /\ idle_state[u] = 2

\* ... and in which the workers between the main worker and the last one
\* are given the processor for their pops only while the queue is empty, so
\* that the main worker does all the relaxations
ScheduledAside(t) ==
    (/\ t \in 1 .. (2 * MaxThreads - 2)
     /\ pc[t] \in { "pop", "pop_scan", "retry", "retry_scan", "probe", "probe_scan" })
        => ContentSet = {}

Scheduled(t) == ScheduledLate(t) /\ ScheduledAside(t)

SsspWideNext == \E t \in Threads(2 * MaxThreads) : Scheduled(t) /\ SsspStep(t)

SsspWideSpec == SsspWideInit /\ [][SsspWideNext]_vars

\* The runs of 2 * MaxThreads workers in which the last worker is scheduled
\* late and the worker before it pops only while the queue is empty: the
\* first two workers relax, push and wake in every interleaving, the third
\* goes idle and is woken.
IdlerAside(t) ==
    (/\ t = 2 * MaxThreads - 2
     /\ pc[t] \in { "pop", "pop_scan", "retry", "retry_scan", "probe", "probe_scan" })
        => ContentSet = {}

RaceScheduled(t) == ScheduledLate(t) /\ IdlerAside(t)

SsspRaceNext == \E t \in Threads(2 * MaxThreads) : RaceScheduled(t) /\ SsspStep(t)

SsspRaceSpec == SsspWideInit /\ [][SsspRaceNext]_vars

(***************************************************************************)
(* src/throughput.cpp                                                      *)
(***************************************************************************)
\* bounds on the settings a run is started with
MaxPrefill == 1
MaxElements == 1
MaxKey == 2
\* largest block size of execute_synchronized_blockwise (the size is
\* configurable, 4096 by default; against the scaled-down key array it may be
\* smaller than, equal to or larger than the array)
BlockSize == 2

WorkModes == { "Mixed", "Split" }
ElementDistributions == { "Uniform", "Ascending", "Descending" }

SettingsSpace ==
    [ prefill_per_thread : 0 .. MaxPrefill,
      elements_per_thread : 0 .. MaxElements,
      work_mode : WorkModes,
      num_push_threads : (0 - 1) .. MaxThreads,
      element_distribution : ElementDistributions,
      min_key : 1 .. MaxKey,
      max_key : 1 .. MaxKey ]

\* a validation without the check of the key range
ValidateMut(n, st) ==
    /\ ~ (n <= 0)
    /\ ~ (st.work_mode = "Split"
          /\ ((st.num_push_threads < 0 \/ st.num_push_threads > n)
              \/ (st.num_push_threads = 0 /\ st.elements_per_thread > 0)))

\* a validation that rejects split mode without push threads whatever the
\* number of elements
ValidateStrictMut(n, st) ==
    /\ ~ (n <= 0)
    /\ ~ (st.min_key > st.max_key)
    /\ ~ (st.work_mode = "Split"
          /\ ((st.num_push_threads < 0 \/ st.num_push_threads > n)
              \/ st.num_push_threads = 0))

\* Settings::validate
Validate(n, st) ==
    /\ ~ (n <= 0)
    /\ ~ (st.min_key > st.max_key)
    /\ ~ (st.work_mode = "Split"
          /\ ((st.num_push_threads < 0 \/ st.num_push_threads > n)
              \/ (st.num_push_threads = 0 /\ st.elements_per_thread > 0)))
    /\ ~ (st.work_mode = "Split" /\ st.num_push_threads = 0
          /\ st.elements_per_thread > 0)

\* keys.size(): num_threads * elements_per_thread
NumKeys == num_threads * settings.elements_per_thread

\* benchmark_thread, lines 315-316: the pop target of split mode
NumElements ==
    (settings.prefill_per_thread + settings.elements_per_thread) * num_threads

\* generate_workload, lines 246-248: the ascending key at index i of a key
\* array of `total` keys; the arithmetic is that of the unsigned 64-bit
\* key_type and std::size_t
AscendingKey(st, total, i) ==
    LET range == (st.max_key - st.min_key + 1) % SizeMod
    IN (st.min_key + ((i * range) % SizeMod) \div total) % SizeMod

\* generate_workload, lines 252-254: the descending key at index i
DescendingKey(st, total, i) ==
    LET range == (st.max_key - st.min_key + 1) % SizeMod
    IN (st.min_key + ((((total - i - 1) % SizeMod) * range) % SizeMod) \div total)
           % SizeMod

\* generate_workload: the keys one worker may write at index i (0-based); a
\* uniform key is any key of the range, the seed being free
WorkloadKeys(i) ==
    CASE settings.element_distribution = "Uniform" ->
           settings.min_key .. settings.max_key
      [] settings.element_distribution = "Ascending" ->
           { AscendingKey(settings, NumKeys, i) }
      [] settings.element_distribution = "Descending" ->
           { DescendingKey(settings, NumKeys, i) }

TpInit ==
    /\ num_threads \in (0 - 1) .. MaxThreads
    /\ config \in Configs
    /\ settings \in SettingsSpace
    /\ exit_code = "start"
    /\ keys = << >>
    /\ cursor = 0
    /\ pc = [t \in Threads(num_threads) |-> "off"]
    /\ ipq = << >>
    /\ ins_buf = [t \in Threads(num_threads) |-> << >>]
    /\ del_buf = [t \in Threads(num_threads) |-> << >>]
    /\ scan = [t \in Threads(num_threads) |-> 0]
    /\ retval = [t \in Threads(num_threads) |-> << 0, 0 >>]
    /\ blk_i = [t \in Threads(num_threads) |-> 0]
    /\ blk_end = [t \in Threads(num_threads) |-> 0]
    /\ block_size \in 1 .. BlockSize
    /\ claimed = [t \in Threads(num_threads) |-> << >>]
    /\ push_log = [t \in Threads(num_threads) |-> << >>]
    /\ prefill_i = [t \in Threads(num_threads) |-> 0]
    /\ num_pops = [t \in Threads(num_threads) |-> 0]
    /\ result_num_pops = 0
    /\ assert_failed = FALSE
    /\ measured_pushes = 0
    /\ measured_pops = 0
    /\ SsspIdle
    /\ MqIdle
    /\ RestIdle

\* main, lines 425-459: invalid settings end the program with status 1
\* before the queue and the workers exist; else the queue, the key vector
\* and the workers are created
TpMain ==
    /\ exit_code = "start"
    /\ IF Validate(num_threads, settings)
       THEN /\ exit_code' = "running"
            /\ ipq' = [k \in Queues |-> << >>]
            /\ keys' = [i \in 1 .. NumKeys |-> 0]
            /\ pc' = [t \in Threads(num_threads) |-> "gen"]
       ELSE /\ exit_code' = "exit1"
            /\ UNCHANGED << ipq, keys, pc >>
    /\ UNCHANGED << block_size, claimed, push_log >>
    /\ UNCHANGED << notTp, num_threads, config, retval, ins_buf, del_buf, scan,
                    settings, cursor, blk_i, blk_end, prefill_i, num_pops,
                    result_num_pops, assert_failed, measured_pushes,
                    measured_pops >>

\* main, lines 459-503: task_handle.wait() returns when every worker has
\* finished; the program ends with status 0
TpMainExit ==
    /\ exit_code = "running"
    /\ \A t \in Threads(num_threads) : pc[t] = "done"
    /\ exit_code' = "exit0"
    /\ UNCHANGED << block_size, claimed, push_log >>
    /\ UNCHANGED << notTp, num_threads, config, pc, retval, queueVars, settings, keys,
                    cursor, blk_i, blk_end, prefill_i, num_pops,
                    result_num_pops, assert_failed, measured_pushes,
                    measured_pops >>

\* the barrier every synchronized phase starts with: worker t passes label
\* `at` once no worker is still before it
Arrived(before) == \A u \in Threads(num_threads) : pc[u] \notin before

\* benchmark_thread, lines 278-280: generate_workload writes the worker's
\* slice [id * E, (id + 1) * E) of keys
RECURSIVE WorkloadSlices(_, _, _)
WorkloadSlices(ks, i, last) ==
    IF i >= last THEN { ks }
    ELSE UNION { WorkloadSlices([ks EXCEPT ![i + 1] = k], i + 1, last) :
                 k \in WorkloadKeys(i) }

GenerateWorkload(t) ==
    /\ At(t, "gen")
    /\ LET start_index == t * settings.elements_per_thread
       IN keys' \in WorkloadSlices(keys, start_index,
                                   start_index + settings.elements_per_thread)
    /\ prefill_i' = [prefill_i EXCEPT ![t] = 0]
    /\ Goto(t, IF settings.prefill_per_thread > 0 THEN "prefill_sync"
               ELSE "work_sync")
    /\ UNCHANGED << block_size, claimed, push_log >>
    /\ UNCHANGED << notTp, num_threads, config, retval, queueVars, settings,
                    exit_code, cursor, blk_i, blk_end, num_pops,
                    result_num_pops, assert_failed, measured_pushes,
                    measured_pops >>

\* prefill, line 264: the barrier of execute_synchronized
PrefillSync(t) ==
    /\ At(t, "prefill_sync")
    /\ Arrived({ "gen" })
    /\ Goto(t, "prefill")
    /\ UNCHANGED << notTp, num_threads, config, retval, queueVars, tpVars >>

\* prefill, lines 265-268: n pushes of uniform keys
Prefill(t) ==
    /\ At(t, "prefill")
    /\ IF prefill_i[t] < settings.prefill_per_thread
       THEN /\ \E key \in settings.min_key .. settings.max_key :
                  MQPush(t, << key, key >>)
            /\ prefill_i' = [prefill_i EXCEPT ![t] = @ + 1]
            /\ UNCHANGED pc
       ELSE /\ Goto(t, "work_sync")
            /\ UNCHANGED << ipq, ins_buf, prefill_i >>
    /\ UNCHANGED << block_size, claimed, push_log >>
    /\ UNCHANGED << notTp, num_threads, config, retval, del_buf, scan, settings,
                    exit_code, keys, cursor, blk_i, blk_end, num_pops,
                    result_num_pops, assert_failed, measured_pushes,
                    measured_pops >>

\* benchmark_thread, lines 308-318: the barrier the measured phase starts
\* with, and the choice of the worker's role
WorkSync(t) ==
    /\ At(t, "work_sync")
    /\ Arrived({ "gen", "prefill_sync", "prefill" })
    /\ Goto(t, IF settings.work_mode = "Mixed" THEN "mixed_claim"
               ELSE IF t < settings.num_push_threads THEN "push_claim"
               ELSE "split_pop")
    /\ num_pops' = [num_pops EXCEPT ![t] = 0]
    /\ UNCHANGED << block_size, claimed, push_log >>
    /\ UNCHANGED << notTp, num_threads, config, retval, queueVars, settings,
                    exit_code, keys, cursor, blk_i, blk_end, prefill_i,
                    result_num_pops, assert_failed, measured_pushes,
                    measured_pops >>

\* a dispatch that takes the block behind the advanced cursor (add_fetch in
\* the place of fetch_add)
ClaimBlockMut(t, workpc) ==
    /\ cursor' = cursor + block_size
    /\ IF cursor + block_size < NumKeys
       THEN /\ blk_i' = [blk_i EXCEPT ![t] = cursor + block_size]
            /\ blk_end' = [blk_end EXCEPT ![t] =
                              IF cursor + 2 * block_size < NumKeys
                              THEN cursor + 2 * block_size ELSE NumKeys]
            /\ claimed' = [claimed EXCEPT ![t] =
                              Append(@, << blk_i'[t], blk_end'[t] - blk_i'[t] >>)]
            /\ Goto(t, workpc)
       ELSE /\ Goto(t, "done")
            /\ UNCHANGED << blk_i, blk_end, claimed >>

\* execute_synchronized_blockwise: claim the block [lo, lo + block_size) with
\* a fetch-add on the shared cursor and call f(lo, count) with the count cut
\* at the total; the worker is finished when lo is past the total
ClaimBlock(t, workpc) ==
    /\ cursor' = cursor + block_size
    /\ IF cursor < NumKeys
       THEN /\ blk_i' = [blk_i EXCEPT ![t] = cursor]
            /\ blk_end' = [blk_end EXCEPT ![t] =
                              IF cursor + block_size < NumKeys
                              THEN cursor + block_size ELSE NumKeys]
            /\ claimed' = [claimed EXCEPT ![t] =
                              Append(@, << blk_i'[t], blk_end'[t] - blk_i'[t] >>)]
            /\ Goto(t, workpc)
       ELSE /\ Goto(t, "done")
            /\ UNCHANGED << blk_i, blk_end, claimed >>

\* execute_mixed, line 183
MixedClaim(t) ==
    /\ At(t, "mixed_claim")
    /\ ClaimBlock(t, "mixed_push")
    /\ UNCHANGED << block_size, push_log >>
    /\ UNCHANGED << notTp, num_threads, config, retval, queueVars, settings,
                    exit_code, keys, prefill_i, num_pops, result_num_pops,
                    assert_failed, measured_pushes, measured_pops >>

\* a loop body that pushes and goes on without the pop
MixedPushMut(t) ==
    /\ At(t, "mixed_push")
    /\ IF blk_i[t] < blk_end[t]
       THEN /\ MQPush(t, << keys[blk_i[t] + 1], keys[blk_i[t] + 1] >>)
            /\ push_log' = [push_log EXCEPT ![t] = Append(@, blk_i[t])]
            /\ measured_pushes' = measured_pushes + 1
            /\ blk_i' = [blk_i EXCEPT ![t] = @ + 1]
            /\ UNCHANGED pc
       ELSE /\ Goto(t, "mixed_claim")
            /\ UNCHANGED << ipq, ins_buf, push_log, measured_pushes, blk_i >>
    /\ UNCHANGED << block_size, claimed >>
    /\ UNCHANGED << notTp, num_threads, config, retval, del_buf, scan, settings,
                    exit_code, keys, cursor, blk_end, prefill_i,
                    num_pops, result_num_pops, assert_failed, measured_pops >>

\* execute_mixed, lines 185-186: handle.push({keys[i], keys[i]})
MixedPush(t) ==
    /\ At(t, "mixed_push")
    /\ IF blk_i[t] < blk_end[t]
       THEN /\ MQPush(t, << keys[blk_i[t] + 1], keys[blk_i[t] + 1] >>)
            /\ push_log' = [push_log EXCEPT ![t] = Append(@, blk_i[t])]
            /\ measured_pushes' = measured_pushes + 1
            /\ Goto(t, "mixed_pop")
       ELSE /\ Goto(t, "mixed_claim")
            /\ UNCHANGED << ipq, ins_buf, push_log, measured_pushes >>
    /\ UNCHANGED << block_size, claimed >>
    /\ UNCHANGED << notTp, num_threads, config, retval, del_buf, scan, settings,
                    exit_code, keys, cursor, blk_i, blk_end, prefill_i,
                    num_pops, result_num_pops, assert_failed, measured_pops >>

\* a loop that steps over an index after every pop
MixedPoppedMut(t) ==
    /\ blk_i' = [blk_i EXCEPT ![t] = IF pc'[t] = "mixed_push" THEN @ + 2 ELSE @]
    /\ measured_pops' = IF pc'[t] = "mixed_push" THEN measured_pops + 1
                        ELSE measured_pops

\* what a successful pop of execute_mixed does: ++i
MixedPopped(t) ==
    /\ blk_i' = [blk_i EXCEPT ![t] = IF pc'[t] = "mixed_push" THEN @ + 1 ELSE @]
    /\ measured_pops' = IF pc'[t] = "mixed_push" THEN measured_pops + 1
                        ELSE measured_pops

\* execute_mixed, line 188: handle.try_pop(retval), first step
MixedPop(t) ==
    /\ At(t, "mixed_pop")
    /\ MQPopStart(t, "mixed_push", "mixed_scan")
    /\ MixedPopped(t)
    /\ UNCHANGED << block_size, claimed, push_log >>
    /\ UNCHANGED << notTp, num_threads, config, settings, exit_code, keys, cursor,
                    blk_end, prefill_i, num_pops, result_num_pops,
                    assert_failed, measured_pushes >>

\* execute_mixed, lines 188-190: the empty protocol of try_pop; a failed
\* pop is counted and the pop is tried again
MixedPopScan(t) ==
    /\ At(t, "mixed_scan")
    /\ MQScanStep(t, "mixed_push", "mixed_pop")
    /\ MixedPopped(t)
    /\ UNCHANGED << block_size, claimed, push_log >>
    /\ UNCHANGED << notTp, num_threads, config, settings, exit_code, keys, cursor,
                    blk_end, prefill_i, num_pops, result_num_pops,
                    assert_failed, measured_pushes >>

\* execute_split_push, line 199
PushClaim(t) ==
    /\ At(t, "push_claim")
    /\ ClaimBlock(t, "split_push")
    /\ UNCHANGED << block_size, push_log >>
    /\ UNCHANGED << notTp, num_threads, config, retval, queueVars, settings,
                    exit_code, keys, prefill_i, num_pops, result_num_pops,
                    assert_failed, measured_pushes, measured_pops >>

\* execute_split_push, lines 200-202
SplitPush(t) ==
    /\ At(t, "split_push")
    /\ IF blk_i[t] < blk_end[t]
       THEN /\ MQPush(t, << keys[blk_i[t] + 1], keys[blk_i[t] + 1] >>)
            /\ push_log' = [push_log EXCEPT ![t] = Append(@, blk_i[t])]
            /\ measured_pushes' = measured_pushes + 1
            /\ blk_i' = [blk_i EXCEPT ![t] = @ + 1]
            /\ UNCHANGED pc
       ELSE /\ Goto(t, "push_claim")
            /\ UNCHANGED << ipq, ins_buf, push_log, measured_pushes, blk_i >>
    /\ UNCHANGED << block_size, claimed >>
    /\ UNCHANGED << notTp, num_threads, config, retval, del_buf, scan, settings,
                    exit_code, keys, cursor, blk_end, prefill_i, num_pops,
                    result_num_pops, assert_failed, measured_pops >>

\* what a successful pop of execute_split_pop does: ++num_pops
SplitPopped(t) ==
    /\ num_pops' = [num_pops EXCEPT ![t] = IF pc'[t] = "split_pop" THEN @ + 1
                                           ELSE @]
    /\ measured_pops' = IF pc'[t] = "split_pop" THEN measured_pops + 1
                        ELSE measured_pops

\* execute_split_pop, line 214: handle.try_pop(retval), first step
SplitPop(t) ==
    /\ At(t, "split_pop")
    /\ MQPopStart(t, "split_pop", "split_scan")
    /\ SplitPopped(t)
    /\ UNCHANGED << block_size, claimed, push_log >>
    /\ UNCHANGED << notTp, num_threads, config, settings, exit_code, keys, cursor,
                    blk_i, blk_end, prefill_i, result_num_pops, assert_failed,
                    measured_pushes >>

\* execute_split_pop, line 214: the empty protocol of try_pop
SplitPopScan(t) ==
    /\ At(t, "split_scan")
    /\ MQScanStep(t, "split_pop", "split_count")
    /\ SplitPopped(t)
    /\ UNCHANGED << block_size, claimed, push_log >>
    /\ UNCHANGED << notTp, num_threads, config, settings, exit_code, keys, cursor,
                    blk_i, blk_end, prefill_i, result_num_pops, assert_failed,
                    measured_pushes >>

\* execute_split_pop, lines 217-228: after the failed pop, with no pops of
\* this round the global count is loaded, else the round's pops are added
\* to it; the loop is left when the count has reached num_elements
SplitCount(t) ==
    /\ At(t, "split_count")
    /\ IF num_pops[t] = 0
       THEN /\ Goto(t, IF result_num_pops >= NumElements THEN "assert"
                       ELSE "split_pop")
            /\ UNCHANGED result_num_pops
       ELSE /\ result_num_pops' = result_num_pops + num_pops[t]
            /\ Goto(t, IF result_num_pops + num_pops[t] >= NumElements
                       THEN "assert" ELSE "split_pop")
    /\ num_pops' = [num_pops EXCEPT ![t] = 0]
    /\ UNCHANGED << block_size, claimed, push_log >>
    /\ UNCHANGED << notTp, num_threads, config, retval, queueVars, settings,
                    exit_code, keys, cursor, blk_i, blk_end, prefill_i,
                    assert_failed, measured_pushes, measured_pops >>

\* execute_split_pop, line 230: the assertion after the loop
SplitAssert(t) ==
    /\ At(t, "assert")
    /\ assert_failed' = (assert_failed \/ result_num_pops # NumElements)
    /\ Goto(t, "done")
    /\ UNCHANGED << block_size, claimed, push_log >>
    /\ UNCHANGED << notTp, num_threads, config, retval, queueVars, settings,
                    exit_code, keys, cursor, blk_i, blk_end, prefill_i,
                    num_pops, result_num_pops, measured_pushes, measured_pops >>

\* one step of benchmark_thread of worker t
TpStep(t) ==
       \/ GenerateWorkload(t)
       \/ PrefillSync(t)
       \/ Prefill(t)
       \/ WorkSync(t)
       \/ MixedClaim(t)
       \/ MixedPush(t)
       \/ MixedPop(t)
       \/ MixedPopScan(t)
       \/ PushClaim(t)
       \/ SplitPush(t)
       \/ SplitPop(t)
       \/ SplitPopScan(t)
       \/ SplitCount(t)
       \/ SplitAssert(t)

TpNext ==
    \/ TpMain
    \/ TpMainExit
    \/ \E t \in AllThreads : TpStep(t)

TpSpec == TpInit /\ [][TpNext]_vars

\* the runs in split mode
TpSplitInit == TpInit /\ settings.work_mode = "Split"

\* one step of benchmark_thread of worker t in split mode
TpSplitStep(t) ==
       \/ GenerateWorkload(t)
       \/ PrefillSync(t)
       \/ Prefill(t)
       \/ WorkSync(t)
       \/ PushClaim(t)
       \/ SplitPush(t)
       \/ SplitPop(t)
       \/ SplitPopScan(t)
       \/ SplitCount(t)
       \/ SplitAssert(t)

TpSplitNext ==
    \/ TpMain
    \/ TpMainExit
    \/ \E t \in AllThreads : TpSplitStep(t)

\* main and every worker are threads of their own: one that can take a step
\* eventually takes it
TpFairSpec ==
    /\ TpSplitInit
    /\ [][TpSplitNext]_vars
    /\ WF_vars(TpMain)
    /\ WF_vars(TpMainExit)
    /\ \A t \in AllThreads : WF_vars(TpSplitStep(t))

\* the runs in mixed mode
TpMixedInit == TpInit /\ settings.work_mode = "Mixed"

\* one step of benchmark_thread of worker t in mixed mode
TpMixedStep(t) ==
       \/ GenerateWorkload(t)
       \/ PrefillSync(t)
       \/ Prefill(t)
       \/ WorkSync(t)
       \/ MixedClaim(t)
       \/ MixedPush(t)
       \/ MixedPop(t)
       \/ MixedPopScan(t)

TpMixedNext ==
    \/ TpMain
    \/ TpMainExit
    \/ \E t \in AllThreads : TpMixedStep(t)

\* main and every worker are threads of their own: one that can take a step
\* eventually takes it
TpMixedFairSpec ==
    /\ TpMixedInit
    /\ [][TpMixedNext]_vars
    /\ WF_vars(TpMain)
    /\ WF_vars(TpMainExit)
    /\ \A t \in AllThreads : WF_vars(TpMixedStep(t))

(***************************************************************************)
(* src/throughput.cpp, Result::update_work_time: every worker reports the  *)
(* tick pair of its measured phase.                                        *)
(***************************************************************************)
\* the latest tick a worker may report
MaxTime == 3

\* timepoint_type::max() and timepoint_type::min() (lines 154-155)
TimepointMax == MaxTime + 1
TimepointMin == 0 - 1

\* the pairs (start, end) with start <= end
WorkTimes == { w \in (0 .. MaxTime) \X (0 .. MaxTime) : w[1] <= w[2] }

TimeInit ==
    /\ num_threads \in 1 .. MaxThreads
    /\ pc = [t \in Threads(num_threads) |-> "load_start"]
    /\ work_time \in [Threads(num_threads) -> WorkTimes]
    /\ start_time = TimepointMax
    /\ end_time = TimepointMin
    /\ old_start = [t \in Threads(num_threads) |-> 0]
    /\ old_end = [t \in Threads(num_threads) |-> 0]
    /\ QueueIdle
    /\ SsspIdle
    /\ TpIdle
    /\ MqIdle
    /\ KeyIdle
    /\ StressIdle
    /\ PackIdle
    /\ LockIdle
    /\ LindenIdle

\* line 169: auto old_start = start_time.load()
LoadStart(t) ==
    /\ At(t, "load_start")
    /\ old_start' = [old_start EXCEPT ![t] = start_time]
    /\ Goto(t, "cas_start")
    /\ UNCHANGED << keyVars, stressVars, packVars, lockVars, lindenVars >>
    /\ UNCHANGED << num_threads, config, retval, queueVars, ssspVars, tpVars,
                    mqVars, work_time, start_time, end_time, old_end >>

\* lines 170-172: one evaluation of the loop condition.  A failed
\* compare_exchange_weak stores the value it found in old_start; a spurious
\* failure finds old_start itself and changes nothing.
CasStart(t) ==
    /\ At(t, "cas_start")
    /\ IF work_time[t][1] < old_start[t]
       THEN IF start_time = old_start[t]
            THEN /\ start_time' = work_time[t][1]
                 /\ Goto(t, "load_end")
                 /\ UNCHANGED old_start
            ELSE /\ old_start' = [old_start EXCEPT ![t] = start_time]
                 /\ UNCHANGED << pc, start_time >>
       ELSE /\ Goto(t, "load_end")
            /\ UNCHANGED << start_time, old_start >>
    /\ UNCHANGED << keyVars, stressVars, packVars, lockVars, lindenVars >>
    /\ UNCHANGED << num_threads, config, retval, queueVars, ssspVars, tpVars,
                    mqVars, work_time, end_time, old_end >>

\* line 173: auto old_end = start_time.load()
LoadEnd(t) ==
    /\ At(t, "load_end")
    /\ old_end' = [old_end EXCEPT ![t] = start_time]
    /\ Goto(t, "cas_end")
    /\ UNCHANGED << keyVars, stressVars, packVars, lockVars, lindenVars >>
    /\ UNCHANGED << num_threads, config, retval, queueVars, ssspVars, tpVars,
                    mqVars, work_time, start_time, end_time, old_start >>

\* lines 174-176: one evaluation of the loop condition
CasEnd(t) ==
    /\ At(t, "cas_end")
    /\ IF work_time[t][2] > old_end[t]
       THEN IF end_time = old_end[t]
            THEN /\ end_time' = work_time[t][2]
                 /\ Goto(t, "done")
                 /\ UNCHANGED old_end
            ELSE /\ old_end' = [old_end EXCEPT ![t] = end_time]
                 /\ UNCHANGED << pc, end_time >>
       ELSE /\ Goto(t, "done")
            /\ UNCHANGED << end_time, old_end >>
    /\ UNCHANGED << keyVars, stressVars, packVars, lockVars, lindenVars >>
    /\ UNCHANGED << num_threads, config, retval, queueVars, ssspVars, tpVars,
                    mqVars, work_time, start_time, old_start >>

TimeStep(t) ==
    \/ LoadStart(t)
    \/ CasStart(t)
    \/ LoadEnd(t)
    \/ CasEnd(t)

TimeNext == \E t \in AllThreads : TimeStep(t)

TimeSpec == TimeInit /\ [][TimeNext]_vars

(***************************************************************************)
(* src/throughput.cpp, benchmark_thread and generate_workload: the key     *)
(* stream of one worker in two runs that agree on seed, thread id,         *)
(* distribution, key range and count.                                      *)
(***************************************************************************)
\* bounds on the seed and on the number of keys per worker
MaxSeed == 1
MaxCount == 2

Runs == { 1, 2 }

KeyRuns ==
    [ seed : 0 .. MaxSeed,
      id : Threads(MaxThreads),
      element_distribution : ElementDistributions,
      min_key : 1 .. MaxKey,
      max_key : 1 .. MaxKey,
      elements_per_thread : 0 .. MaxCount ]

\* a stream that is seeded with the seed and the number of threads
SeedSeqMut(r) == 1 + ((3 * key_run.seed + key_threads[r]) % 10)

\* lines 275-276: std::seed_seq seed{settings.seed, ctx.get_id()} and the
\* engine built from it.  The engine is a linear congruential generator
\* (std::default_random_engine); modulus and multiplier are scaled down to
\* 11 and 6, the state is never 0.
SeedSeq(r) == 1 + ((3 * key_run.seed + key_run.id) % 10)

\* one step of the engine
EngineNext(x) == (6 * x) % 11

\* std::uniform_int_distribution<key_type>(min_key, max_key) applied to the
\* engine's output x
KeyDist(x) == key_run.min_key + (x % (key_run.max_key - key_run.min_key + 1))

\* main, lines 425-429, and benchmark_thread, lines 275-276: both runs have
\* valid settings and a worker of the given id
KeyInit ==
    /\ key_run \in { k \in KeyRuns : k.min_key <= k.max_key }
    /\ key_threads \in [Runs -> (key_run.id + 1) .. MaxThreads]
    /\ key_rng = [r \in Runs |-> SeedSeq(r)]
    /\ key_out = [r \in Runs |-> << >>]
    /\ num_threads = 0
    /\ pc = << >>
    /\ QueueIdle
    /\ SsspIdle
    /\ TpIdle
    /\ MqIdle
    /\ TimeIdle
    /\ StressIdle
    /\ PackIdle
    /\ LockIdle
    /\ LindenIdle

\* generate_workload, lines 241-243, 247-249, 253-255: one iteration of the
\* loop of the worker of run r; keys.size() is num_threads * elements_per_thread
GenerateKey(r) ==
    /\ key_run # << >>
    /\ Len(key_out[r]) < key_run.elements_per_thread
    /\ LET i == key_run.id * key_run.elements_per_thread + Len(key_out[r])
           total == key_threads[r] * key_run.elements_per_thread
           x == EngineNext(key_rng[r])
       IN CASE key_run.element_distribution = "Uniform" ->
                 /\ key_rng' = [key_rng EXCEPT ![r] = x]
                 /\ key_out' = [key_out EXCEPT ![r] = Append(@, KeyDist(x))]
            [] key_run.element_distribution = "Ascending" ->
                 /\ key_out' = [key_out EXCEPT ![r] =
                                   Append(@, AscendingKey(key_run, total, i))]
                 /\ UNCHANGED key_rng
            [] key_run.element_distribution = "Descending" ->
                 /\ key_out' = [key_out EXCEPT ![r] =
                                   Append(@, DescendingKey(key_run, total, i))]
                 /\ UNCHANGED key_rng
    /\ UNCHANGED << num_threads, config, pc, retval, queueVars, ssspVars,
                    tpVars, mqVars, timeVars, stressVars, packVars, lockVars,
                    lindenVars, key_run,
                    key_threads >>

KeyNext == \E r \in Runs : GenerateKey(r)

KeySpec == KeyInit /\ [][KeyNext]_vars

\* the settings of main, lines 370-375 and 425-429: any key range of the
\* key type that Settings::validate accepts (min_key <= max_key), the
\* largest key of the type included
WideKeyRuns ==
    [ seed : { 0 },
      id : Threads(MaxThreads),
      element_distribution : ElementDistributions,
      min_key : 0 .. SizeMod - 1,
      max_key : 0 .. SizeMod - 1,
      elements_per_thread : 0 .. MaxCount ]

\* main, lines 425-429, and benchmark_thread, lines 275-276, for the whole
\* key type
KeyWideInit ==
    /\ key_run \in { k \in WideKeyRuns : k.min_key <= k.max_key }
    /\ key_threads \in [Runs -> (key_run.id + 1) .. MaxThreads]
    /\ key_rng = [r \in Runs |-> SeedSeq(r)]
    /\ key_out = [r \in Runs |-> << >>]
    /\ num_threads = 0
    /\ pc = << >>
    /\ QueueIdle
    /\ SsspIdle
    /\ TpIdle
    /\ MqIdle
    /\ TimeIdle
    /\ StressIdle
    /\ PackIdle
    /\ LockIdle
    /\ LindenIdle

KeyWideSpec == KeyWideInit /\ [][KeyNext]_vars

(***************************************************************************)
(* src/stress_test.cpp: the stress driver.  The build defines THROUGHPUT   *)
(* (the run is ended by stop_flag) or QUALITY (the run is ended by the      *)
(* count of logged deletions).  The sleep between operations (lines        *)
(* 260-262) only delays a worker and is not a step.                        *)
(***************************************************************************)
StressBuilds == { "Throughput", "Quality" }

\* bounds on the settings of a stress run
MaxPrefillSize == 1
MaxMinDeletes == 1
\* keys the InsertingStrategy hands out
MaxStressKey == 1
\* operations of the loop one worker performs in the runs explored
MaxStressOps == 2
\* the largest tick the clock reaches
MaxTick == 2
Ticks == 0 .. MaxTick

\* lines 93-97: bits_for_thread_id and the digits of value_type, scaled down
\* from 8 and 64
ThreadIdBits == 2
ValueDigits == 4
value_mask == 2 ^ (ValueDigits - ThreadIdBits) - 1

\* lines 99-104: to_value(thread_id, elem_id); elem_id & value_mask is the
\* remainder modulo value_mask + 1, the shift cuts the value at ValueDigits
to_value(thread_id, elem_id) ==
    ((thread_id * 2 ^ (ValueDigits - ThreadIdBits)) % 2 ^ ValueDigits)
        + (elem_id % (value_mask + 1))

StressSettings ==
    [ prefill_size : 0 .. MaxPrefillSize,
      min_num_delete_operations : 0 .. MaxMinDeletes ]

\* main, lines 436-463: the queue exists, the counters and flags are reset
\* and the workers have been started
StressInit ==
    /\ num_threads \in 1 .. MaxThreads
    /\ config \in Configs
    /\ stress_build \in StressBuilds
    /\ stress_settings \in StressSettings
    /\ main_pc = "wait_notified"
    /\ notified = FALSE
    /\ start_flag = FALSE
    /\ stop_flag = FALSE
    /\ num_delete_operations = 0
    /\ stress_i = 0
    /\ pc = [t \in Threads(num_threads) |-> "prefill"]
    /\ ipq = [k \in Queues |-> << >>]
    /\ ins_buf = [t \in Threads(num_threads) |-> << >>]
    /\ del_buf = [t \in Threads(num_threads) |-> << >>]
    /\ scan = [t \in Threads(num_threads) |-> 0]
    /\ retval = [t \in Threads(num_threads) |-> << 0, 0 >>]
    /\ num_local_insertions = [t \in Threads(num_threads) |-> 0]
    /\ num_local_deletions = [t \in Threads(num_threads) |-> 0]
    /\ num_local_failed_deletions = [t \in Threads(num_threads) |-> 0]
    /\ local_insertions = [t \in Threads(num_threads) |-> << >>]
    /\ local_deletions = [t \in Threads(num_threads) |-> << >>]
    /\ num_insertions = 0
    /\ num_deletions = 0
    /\ num_failed_deletions = 0
    /\ ops_after_stop = [t \in Threads(num_threads) |-> 0]
    /\ clock = 1
    /\ insertion_ticks = [t \in Threads(num_threads) |-> << >>]
    /\ deletion_ticks = [t \in Threads(num_threads) |-> << >>]
    /\ SsspIdle
    /\ TpIdle
    /\ MqIdle
    /\ TimeIdle
    /\ KeyIdle
    /\ PackIdle
    /\ LockIdle
    /\ LindenIdle

notStress == << ssspVars, tpVars, mqVars, timeVars, keyVars, packVars,
               lockVars, lindenVars >>

tickVars == << clock, insertion_ticks, deletion_ticks >>

\* lines 60-64: get_tick_realtime() returns k; the clock never goes back,
\* whichever thread reads it
get_tick_realtime(k) ==
    /\ k \in clock .. MaxTick
    /\ clock' = k

\* lines 227-229, 239-241: the tick a quality build takes; the other build
\* does not read the clock
TakeTick(k) ==
    IF stress_build = "Quality" THEN get_tick_realtime(k)
    ELSE k = clock /\ UNCHANGED clock

\* lines 195-203, 224-235: the pair a worker pushes for key `key`; the
\* quality build packs the worker's id and the size of its insertion log
\* into the value and logs the key
StressPushPair(t, key) ==
    /\ MQPush(t, << key, IF stress_build = "Quality"
                         THEN to_value(t, Len(local_insertions[t]))
                         ELSE key >>)
    /\ local_insertions' =
           IF stress_build = "Quality"
           THEN [local_insertions EXCEPT ![t] = Append(@, key)]
           ELSE local_insertions

\* the operation a worker starts now is one started after the store to
\* stop_flag
CountAfterStop(t) ==
    ops_after_stop' = IF stop_flag THEN [ops_after_stop EXCEPT ![t] = @ + 1]
                      ELSE ops_after_stop

\* lines 191-207: the main worker pushes prefill_size pairs
StressPrefill(t) ==
    /\ At(t, "prefill")
    /\ IF IsMain(t) /\ stress_i < stress_settings.prefill_size
       THEN /\ \E key \in 1 .. MaxStressKey : StressPushPair(t, key)
            /\ insertion_ticks' =
                   IF stress_build = "Quality"
                   THEN [insertion_ticks EXCEPT ![t] = Append(@, 0)]
                   ELSE insertion_ticks
            /\ stress_i' = stress_i + 1
            /\ UNCHANGED pc
       ELSE /\ Goto(t, "sync1")
            /\ UNCHANGED << ipq, ins_buf, local_insertions, stress_i,
                            insertion_ticks >>
    /\ UNCHANGED << notStress, num_threads, config, retval, del_buf, scan,
                    stress_build, stress_settings, main_pc, notified,
                    start_flag, stop_flag, num_delete_operations,
                    num_local_insertions, num_local_deletions,
                    num_local_failed_deletions, local_deletions,
                    num_insertions, num_deletions, num_failed_deletions,
                    ops_after_stop >>
    /\ UNCHANGED << clock, deletion_ticks >>

\* lines 208-211: the barrier; the main worker notifies the coordinator
\* before the others are released
StressSync(t) ==
    /\ At(t, "sync1")
    /\ IF IsMain(t) THEN \A u \in Threads(num_threads) : pc[u] # "prefill"
       ELSE notified
    /\ notified' = TRUE
    /\ Goto(t, "wait_start")
    /\ UNCHANGED << notStress, num_threads, config, retval, queueVars,
                    stress_build, stress_settings, main_pc,
                    start_flag, stop_flag, num_delete_operations, stress_i,
                    num_local_insertions, num_local_deletions,
                    num_local_failed_deletions, local_insertions,
                    local_deletions, num_insertions, num_deletions,
                    num_failed_deletions, ops_after_stop >>
    /\ UNCHANGED tickVars

\* lines 212-215: spin until start_flag is set
StressWaitStart(t) ==
    /\ At(t, "wait_start")
    /\ start_flag
    /\ Goto(t, "loop")
    /\ UNCHANGED << notStress, num_threads, config, retval, queueVars,
                    stressVars >>

\* a loop condition that does not look at stop_flag before the worker has
\* done all its operations
StressLoopMut(t) ==
    /\ At(t, "loop")
    /\ IF num_local_insertions[t] + num_local_deletions[t] >= MaxStressOps
       THEN Goto(t, "sync2")
       ELSE Goto(t, "op")
    /\ UNCHANGED << notStress, num_threads, config, retval, queueVars,
                    stressVars >>

\* lines 217-222: the loop condition, a load of stop_flag resp. of
\* num_delete_operations
StressLoop(t) ==
    /\ At(t, "loop")
    /\ IF IF stress_build = "Throughput" THEN stop_flag
          ELSE num_delete_operations >= stress_settings.min_num_delete_operations
       THEN Goto(t, "sync2")
       ELSE /\ num_local_insertions[t] + num_local_deletions[t] < MaxStressOps
            /\ Goto(t, "op")
    /\ UNCHANGED << notStress, num_threads, config, retval, queueVars,
                    stressVars >>

\* lines 223-236: inserter.insert() chose a push
StressPush(t) ==
    /\ At(t, "op")
    /\ \E key \in 1 .. MaxStressKey : StressPushPair(t, key)
    /\ num_local_insertions' = [num_local_insertions EXCEPT ![t] = @ + 1]
    /\ CountAfterStop(t)
    /\ Goto(t, IF stress_build = "Quality" THEN "push_tick" ELSE "loop")
    /\ UNCHANGED << notStress, num_threads, config, retval, del_buf, scan,
                    stress_build, stress_settings, main_pc, notified,
                    start_flag, stop_flag, num_delete_operations, stress_i,
                    num_local_deletions, num_local_failed_deletions,
                    local_deletions, num_insertions, num_deletions,
                    num_failed_deletions >>
    /\ UNCHANGED tickVars

\* lines 227-230: the quality build takes the tick of an insertion after
\* pq.push has returned and completes the log entry with it
StressPushTick(t) ==
    /\ At(t, "push_tick")
    /\ \E tick \in Ticks :
           /\ get_tick_realtime(tick)
           /\ insertion_ticks' = [insertion_ticks EXCEPT ![t] = Append(@, tick)]
    /\ Goto(t, "loop")
    /\ UNCHANGED << notStress, num_threads, config, retval, queueVars,
                    stress_build, stress_settings, main_pc, notified,
                    start_flag, stop_flag, num_delete_operations, stress_i,
                    num_local_insertions, num_local_deletions,
                    num_local_failed_deletions, local_insertions,
                    local_deletions, num_insertions, num_deletions,
                    num_failed_deletions, ops_after_stop, deletion_ticks >>

\* line 238: inserter.insert() chose a pop; pq.extract_top, first step
StressPop(t) ==
    /\ At(t, "op")
    /\ MQPopStart(t, "deleted", "op_scan")
    /\ CountAfterStop(t)
    /\ UNCHANGED << notStress, num_threads, config,
                    stress_build, stress_settings, main_pc, notified,
                    start_flag, stop_flag, num_delete_operations, stress_i,
                    num_local_insertions, num_local_deletions,
                    num_local_failed_deletions, local_insertions,
                    local_deletions, num_insertions, num_deletions,
                    num_failed_deletions >>
    /\ UNCHANGED tickVars

\* line 238: the empty protocol of extract_top
StressPopScan(t) ==
    /\ At(t, "op_scan")
    /\ MQScanStep(t, "deleted", "failed")
    /\ UNCHANGED << notStress, num_threads, config, stressVars >>

\* a driver that counts every pop, successful or not
StressFailedMut(t) ==
    /\ At(t, "failed")
    /\ num_local_failed_deletions' =
           [num_local_failed_deletions EXCEPT ![t] = @ + 1]
    /\ num_local_deletions' = [num_local_deletions EXCEPT ![t] = @ + 1]
    /\ num_delete_operations' =
           IF stress_build = "Quality" THEN num_delete_operations + 1
           ELSE num_delete_operations
    /\ Goto(t, "loop")
    /\ UNCHANGED << notStress, num_threads, config, retval, queueVars,
                    stress_build, stress_settings, main_pc, notified,
                    start_flag, stop_flag, stress_i,
                    num_local_insertions, local_insertions, local_deletions,
                    num_insertions, num_deletions, num_failed_deletions,
                    ops_after_stop >>
    /\ \E k \in Ticks : TakeTick(k)
    /\ UNCHANGED << insertion_ticks, deletion_ticks >>

\* lines 243-245, 251-253, 258: the pop was successful; the quality build
\* logs the value and adds 1 to num_delete_operations
StressDeleted(t) ==
    /\ At(t, "deleted")
    /\ IF stress_build = "Quality"
       THEN /\ \E tick \in Ticks :
                   /\ get_tick_realtime(tick)
                   /\ deletion_ticks' =
                          [deletion_ticks EXCEPT ![t] = Append(@, tick)]
            /\ local_deletions' =
                   [local_deletions EXCEPT ![t] = Append(@, retval[t][2])]
            /\ num_delete_operations' = num_delete_operations + 1
       ELSE UNCHANGED << local_deletions, num_delete_operations, clock,
                         deletion_ticks >>
    /\ num_local_deletions' = [num_local_deletions EXCEPT ![t] = @ + 1]
    /\ Goto(t, "loop")
    /\ UNCHANGED << notStress, num_threads, config, retval, queueVars,
                    stress_build, stress_settings, main_pc, notified,
                    start_flag, stop_flag, stress_i,
                    num_local_insertions, num_local_failed_deletions,
                    local_insertions, num_insertions, num_deletions,
                    num_failed_deletions, ops_after_stop >>
    /\ UNCHANGED insertion_ticks

\* lines 246-248, 254-255, 258: the pop failed
StressFailed(t) ==
    /\ At(t, "failed")
    /\ num_local_failed_deletions' =
           [num_local_failed_deletions EXCEPT ![t] = @ + 1]
    /\ num_local_deletions' = [num_local_deletions EXCEPT ![t] = @ + 1]
    /\ Goto(t, "loop")
    /\ UNCHANGED << notStress, num_threads, config, retval, queueVars,
                    stress_build, stress_settings, main_pc, notified,
                    start_flag, stop_flag, num_delete_operations, stress_i,
                    num_local_insertions, local_insertions, local_deletions,
                    num_insertions, num_deletions, num_failed_deletions,
                    ops_after_stop >>
    /\ \E k \in Ticks : TakeTick(k)
    /\ UNCHANGED << insertion_ticks, deletion_ticks >>

\* lines 264-273: the final barrier, then the worker hands over its logs and
\* adds its counts to the totals
StressFinish(t) ==
    /\ At(t, "sync2")
    /\ \A u \in Threads(num_threads) : pc[u] \in { "sync2", "done" }
    /\ num_insertions' = num_insertions + num_local_insertions[t]
    /\ num_deletions' = num_deletions + num_local_deletions[t]
    /\ num_failed_deletions' =
           num_failed_deletions + num_local_failed_deletions[t]
    /\ Goto(t, "done")
    /\ UNCHANGED << notStress, num_threads, config, retval, queueVars,
                    stress_build, stress_settings, main_pc, notified,
                    start_flag, stop_flag, num_delete_operations, stress_i,
                    num_local_insertions, num_local_deletions,
                    num_local_failed_deletions, local_insertions,
                    local_deletions, ops_after_stop >>
    /\ UNCHANGED tickVars

\* main, lines 464-465: coordinator.wait_until_notified() has returned;
\* start_flag.store(true)
StressMainStart ==
    /\ main_pc = "wait_notified"
    /\ notified
    /\ start_flag' = TRUE
    /\ main_pc' = IF stress_build = "Throughput" THEN "sleep" ELSE "join"
    /\ UNCHANGED << notStress, num_threads, config, pc, retval, queueVars,
                    stress_build, stress_settings, notified,
                    stop_flag, num_delete_operations, stress_i,
                    num_local_insertions, num_local_deletions,
                    num_local_failed_deletions, local_insertions,
                    local_deletions, num_insertions, num_deletions,
                    num_failed_deletions, ops_after_stop >>
    /\ UNCHANGED tickVars

\* main, lines 467-468: the sleep of test_duration is over;
\* stop_flag.store(true)
StressMainStop ==
    /\ main_pc = "sleep"
    /\ stop_flag' = TRUE
    /\ main_pc' = "join"
    /\ UNCHANGED << notStress, num_threads, config, pc, retval, queueVars,
                    stress_build, stress_settings, notified,
                    start_flag, num_delete_operations, stress_i,
                    num_local_insertions, num_local_deletions,
                    num_local_failed_deletions, local_insertions,
                    local_deletions, num_insertions, num_deletions,
                    num_failed_deletions, ops_after_stop >>
    /\ UNCHANGED tickVars

\* main, line 470: coordinator.join() returns when every worker has finished
StressMainJoin ==
    /\ main_pc = "join"
    /\ \A t \in Threads(num_threads) : pc[t] = "done"
    /\ main_pc' = "exit"
    /\ UNCHANGED << notStress, num_threads, config, pc, retval, queueVars,
                    stress_build, stress_settings, notified,
                    start_flag, stop_flag, num_delete_operations, stress_i,
                    num_local_insertions, num_local_deletions,
                    num_local_failed_deletions, local_insertions,
                    local_deletions, num_insertions, num_deletions,
                    num_failed_deletions, ops_after_stop >>
    /\ UNCHANGED tickVars

\* one step of Task::run of worker t
StressStep(t) ==
    \/ StressPrefill(t)
    \/ StressSync(t)
    \/ StressWaitStart(t)
    \/ StressLoop(t)
    \/ StressPush(t)
    \/ StressPushTick(t)
    \/ StressPop(t)
    \/ StressPopScan(t)
    \/ StressDeleted(t)
    \/ StressFailed(t)
    \/ StressFinish(t)

StressNext ==
    \/ StressMainStart
    \/ StressMainStop
    \/ StressMainJoin
    \/ \E t \in AllThreads : StressStep(t)

StressSpec == StressInit /\ [][StressNext]_vars

\* main and every worker are threads of their own (each worker is pinned to
\* its own core): one that can take a step eventually takes it
StressFairSpec ==
    /\ StressSpec
    /\ WF_vars(StressMainStart)
    /\ WF_vars(StressMainStop)
    /\ WF_vars(StressMainJoin)
    /\ \A t \in AllThreads : WF_vars(StressStep(t))

(***************************************************************************)
(* src/stress_test.cpp, lines 93-113 and 396-402: the values of the        *)
(* quality log pack the pushing worker's id and the element's number.      *)
(***************************************************************************)
\* line 397: the check of the number of threads against bits_for_thread_id
TooManyThreads(n) == n > 2 ^ ThreadIdBits - 1

\* an extraction that shifts by one bit less
get_thread_idMut(value) == value \div 2 ^ (ValueDigits - ThreadIdBits - 1)

\* lines 106-109: get_thread_id(value), a right shift
get_thread_id(value) == value \div 2 ^ (ValueDigits - ThreadIdBits)

\* lines 111-113: get_elem_id(value) is value & value_mask
get_elem_id(value) == value % (value_mask + 1)

Pairs == { 1, 2 }

\* two pairs of a thread id of the run and an element id; the element ids
\* go one past the largest that fits
PackInit ==
    /\ pack_threads \in 1 .. 2 ^ ThreadIdBits
    /\ pack_in \in [Pairs -> Threads(pack_threads)
                               \X (0 .. 2 ^ (ValueDigits - ThreadIdBits))]
    /\ pack_value = << >>
    /\ pack_out = << >>
    /\ num_threads = 0
    /\ pc = << >>
    /\ QueueIdle
    /\ SsspIdle
    /\ TpIdle
    /\ MqIdle
    /\ TimeIdle
    /\ KeyIdle
    /\ StressIdle
    /\ LockIdle
    /\ LindenIdle

\* main, lines 396-402, and Task::run, lines 197-198 and 226-227: a run
\* whose number of threads passes the check packs the pair
PackValue(k) ==
    /\ pack_in # << >>
    /\ ~ TooManyThreads(pack_threads)
    /\ k \notin DOMAIN pack_value
    /\ pack_value' = (k :> to_value(pack_in[k][1], pack_in[k][2])) @@ pack_value
    /\ UNCHANGED << num_threads, config, pc, retval, queueVars, ssspVars,
                    tpVars, mqVars, timeVars, keyVars, stressVars, lockVars, lindenVars,
                    pack_threads, pack_in, pack_out >>

\* main, line 491: the log prints get_thread_id(value) and
\* get_elem_id(value)
UnpackValue(k) ==
    /\ k \in DOMAIN pack_value
    /\ k \notin DOMAIN pack_out
    /\ pack_out' = (k :> << get_thread_id(pack_value[k]),
                            get_elem_id(pack_value[k]) >>) @@ pack_out
    /\ UNCHANGED << num_threads, config, pc, retval, queueVars, ssspVars,
                    tpVars, mqVars, timeVars, keyVars, stressVars, lockVars, lindenVars,
                    pack_threads, pack_in, pack_value >>

PackNext == \E k \in Pairs : PackValue(k) \/ UnpackValue(k)

PackSpec == PackInit /\ [][PackNext]_vars

(***************************************************************************)
(* The internal priority queues at the grain of their try-locks (design    *)
(* sections 3, 4.1 and 4.2): a handle takes the try-lock of one internal   *)
(* queue, changes the heap, writes the top-key cache as the last action    *)
(* under the lock and releases the lock.  Each of these is a step here.    *)
(***************************************************************************)
MaxHeapKey == 2
MaxHeapOps == 3

\* the empty marker of the top-key cache: above every user key
EmptyKey == DistMod - 1

\* the true minimum of a heap, the empty marker for an empty one
TrueTop(h) == IF h = << >> THEN EmptyKey ELSE h[1]

\* push into the heap; the keys are kept ascending
HeapPush(h, k) ==
    LET n == Cardinality({ j \in 1 .. Len(h) : h[j] <= k })
    IN SubSeq(h, 1, n) \o << k >> \o SubSeq(h, n + 1, Len(h))

notLock == << num_threads, config, retval, queueVars, ssspVars, tpVars, mqVars,
             timeVars, keyVars, stressVars, packVars, lindenVars >>

LockInit ==
    /\ num_threads \in 1 .. MaxThreads
    /\ heap = [i \in Queues |-> << >>]
    /\ top_key = [i \in Queues |-> EmptyKey]
    /\ lock = [i \in Queues |-> -1]
    /\ held = [t \in Threads(num_threads) |-> 0]
    /\ seen = [t \in Threads(num_threads) |-> EmptyKey]
    /\ heap_ops = 0
    /\ pc = [t \in Threads(num_threads) |-> "h_idle"]
    /\ QueueIdle
    /\ SsspIdle
    /\ TpIdle
    /\ MqIdle
    /\ TimeIdle
    /\ KeyIdle
    /\ StressIdle
    /\ PackIdle
    /\ LindenIdle

\* push, steps 2 and 3: draw an index and try-lock that queue; a failed
\* try-lock draws again
LockPush(t) ==
    /\ At(t, "h_idle")
    /\ heap_ops < MaxHeapOps
    /\ heap_ops' = heap_ops + 1
    /\ \E i \in Queues :
           /\ lock[i] = -1
           /\ lock' = [lock EXCEPT ![i] = t]
           /\ held' = [held EXCEPT ![t] = i]
    /\ Goto(t, "h_insert")
    /\ UNCHANGED << heap, top_key, seen >>
    /\ UNCHANGED notLock

\* push, step 3: insert under the lock
LockInsert(t) ==
    /\ At(t, "h_insert")
    /\ \E k \in 0 .. MaxHeapKey :
           heap' = [heap EXCEPT ![held[t]] = HeapPush(@, k)]
    /\ Goto(t, "h_cache")
    /\ UNCHANGED << top_key, lock, held, seen, heap_ops >>
    /\ UNCHANGED notLock

\* pop, step 2: read the top-key caches of two sampled queues without
\* locking and take the one with the smaller key, the lower index on a tie;
\* when both show empty the scan of the empty protocol takes a queue
LockSample(t) ==
    /\ At(t, "h_idle")
    /\ heap_ops < MaxHeapOps
    /\ heap_ops' = heap_ops + 1
    /\ \E p \in SamplePairs :
           IF top_key[p[1]] = EmptyKey /\ top_key[p[2]] = EmptyKey
           THEN /\ held' \in { [held EXCEPT ![t] = i] : i \in Queues }
                /\ seen' = [seen EXCEPT ![t] = EmptyKey]
           ELSE LET b == IF top_key[p[2]] < top_key[p[1]] THEN p[2]
                         ELSE IF top_key[p[1]] < top_key[p[2]] THEN p[1]
                         ELSE IF p[1] < p[2] THEN p[1] ELSE p[2]
                IN /\ held' = [held EXCEPT ![t] = b]
                   /\ seen' = [seen EXCEPT ![t] = top_key[b]]
    /\ Goto(t, "h_trylock")
    /\ UNCHANGED << heap, top_key, lock >>
    /\ UNCHANGED notLock

\* pop, step 3: try-lock the chosen queue; on failure the pop samples again
LockTryPop(t) ==
    /\ At(t, "h_trylock")
    /\ IF lock[held[t]] = -1
       THEN /\ lock' = [lock EXCEPT ![held[t]] = t]
            /\ Goto(t, "h_extract")
       ELSE /\ Goto(t, "h_idle")
            /\ UNCHANGED lock
    /\ UNCHANGED << heap, top_key, held, seen, heap_ops >>
    /\ UNCHANGED notLock

\* a pop that releases the lock right after the extraction
LockExtractMut(t) ==
    /\ At(t, "h_extract")
    /\ IF heap[held[t]] = << >>
       THEN /\ Goto(t, "h_release")
            /\ UNCHANGED heap
       ELSE /\ heap' = [heap EXCEPT ![held[t]] = Tail(@)]
            /\ Goto(t, "h_release")
    /\ UNCHANGED << top_key, lock, held, seen, heap_ops >>
    /\ UNCHANGED notLock

\* pop, steps 4 and 5: under the lock the true top is checked again; an
\* empty heap is left as it is, a changed top may make the pop release and
\* sample again, else the minimum is extracted
LockExtract(t) ==
    /\ At(t, "h_extract")
    /\ IF heap[held[t]] = << >>
       THEN /\ Goto(t, "h_release")
            /\ UNCHANGED heap
       ELSE \/ /\ heap' = [heap EXCEPT ![held[t]] = Tail(@)]
               /\ Goto(t, "h_cache")
            \/ /\ heap[held[t]][1] > seen[t]
               /\ Goto(t, "h_release")
               /\ UNCHANGED heap
    /\ UNCHANGED << top_key, lock, held, seen, heap_ops >>
    /\ UNCHANGED notLock

\* the top-key cache is written as the last action under the lock on any
\* mutation
LockCache(t) ==
    /\ At(t, "h_cache")
    /\ top_key' = [top_key EXCEPT ![held[t]] = TrueTop(heap[held[t]])]
    /\ Goto(t, "h_release")
    /\ UNCHANGED << heap, lock, held, seen, heap_ops >>
    /\ UNCHANGED notLock

\* the lock is released
LockRelease(t) ==
    /\ At(t, "h_release")
    /\ lock' = [lock EXCEPT ![held[t]] = -1]
    /\ Goto(t, "h_idle")
    /\ UNCHANGED << heap, top_key, held, seen, heap_ops >>
    /\ UNCHANGED notLock

LockStep(t) ==
    \/ LockPush(t)
    \/ LockInsert(t)
    \/ LockSample(t)
    \/ LockTryPop(t)
    \/ LockExtract(t)
    \/ LockCache(t)
    \/ LockRelease(t)

LockNext == \E t \in AllThreads : LockStep(t)

LockSpec == LockInit /\ [][LockNext]_vars

(***************************************************************************)
(* src/wrapper/linden.cpp: the wrapper of Linden's queue.  The library     *)
(* (insert, deletemin_key) and linden.hpp are not part of the sources; the *)
(* library is a linearizable priority queue of pairs, and the wrapper's    *)
(* sentinel_ is the empty marker of the design document (sections 3 and    *)
(* 9): the largest key, above every user key.  A call is one step.         *)
(***************************************************************************)
\* the width of key_type, scaled down from 64
LindenKeyBits == 2
LindenKeyMod == 2 ^ LindenKeyBits
\* the values pushed and the pairs that wait in the runs explored
MaxLindenValue == 1
MaxLindenPending == 3

LindenKeys == 0 .. LindenKeyMod - 1
LindenValues == 0 .. MaxLindenValue

\* the key deletemin_key reports for an empty queue
sentinel_ == LindenKeyMod - 1

\* ::insert(pq, key, value)
insert(pq, key, value) == SortedInsert(pq, << key, value >>)

\* ::deletemin_key(pq, &key): what the call may report and leave: the key
\* and the value of a pair with the minimal key, or the sentinel key and no
\* value for an empty queue
deletemin_key(pq) ==
    IF pq = << >> THEN { [key |-> sentinel_, value |-> 0, rest |-> pq] }
    ELSE { [key |-> pq[m][1], value |-> pq[m][2], rest |-> RemoveAt(pq, m)] :
               m \in MinPositions(pq) }

\* a try_pop that does not take back the shift of the key
TryPopResultMut(o) ==
    IF o.key = sentinel_ THEN [ok |-> FALSE, first |-> o.key, second |-> o.value]
    ELSE [ok |-> TRUE, first |-> o.key, second |-> o.value]

\* lines 33-38 and 52-57: retval and the result of try_pop after
\* deletemin_key has reported o
TryPopResult(o) ==
    IF o.key = sentinel_ THEN [ok |-> FALSE, first |-> o.key, second |-> o.value]
    ELSE [ok |-> TRUE, first |-> (o.key - 1) % LindenKeyMod, second |-> o.value]

\* the positions of pair e in a sequence
Positions(s, e) == { i \in 1 .. Len(s) : s[i] = e }

notLinden == << num_threads, config, pc, retval, queueVars, ssspVars, tpVars,
               mqVars, timeVars, keyVars, stressVars, packVars, lockVars >>

\* Linden::Linden, lines 23-26: pq_init gives an empty queue
LindenInit ==
    /\ linden_pq = << >>
    /\ linden_ret = << >>
    /\ linden_pending = << >>
    /\ num_threads = 0
    /\ pc = << >>
    /\ QueueIdle
    /\ SsspIdle
    /\ TpIdle
    /\ MqIdle
    /\ TimeIdle
    /\ KeyIdle
    /\ StressIdle
    /\ PackIdle
    /\ LockIdle

\* lines 29 and 48: ::insert(pq_, value.first + 1, value.second), the sum in
\* the unsigned key_type
PushShifted(key, value) ==
    /\ Len(linden_pending) < MaxLindenPending
    /\ linden_pq' = insert(linden_pq, (key + 1) % LindenKeyMod, value)
    /\ linden_pending' = SortedInsert(linden_pending, << key, value >>)
    /\ UNCHANGED << notLinden, linden_ret >>

\* lines 33-38 and 52-57: deletemin_key, the test for the sentinel and the
\* decrement of the key
PopShifted ==
    \E o \in deletemin_key(linden_pq) :
        LET r == TryPopResult(o)
            at == Positions(linden_pending, << r.first, r.second >>)
        IN /\ linden_pq' = o.rest
           /\ linden_ret' = [ok |-> r.ok, first |-> r.first, second |-> r.second,
                             raw |-> o.key, pushed |-> r.ok => at # {}]
           /\ linden_pending' =
                  IF r.ok /\ at # {}
                  THEN RemoveAt(linden_pending, CHOOSE i \in at : TRUE)
                  ELSE linden_pending
           /\ UNCHANGED notLinden

\* Linden::Handle::push, lines 28-30
LindenHandlePush(key, value) == PushShifted(key, value)

\* Linden::Handle::try_pop, lines 32-39
LindenHandleTryPop == PopShifted

\* Linden::push, lines 47-49
LindenPush(key, value) == PushShifted(key, value)

\* Linden::try_pop, lines 51-58
LindenTryPop == PopShifted

LindenNext ==
    \/ \E key \in LindenKeys, value \in LindenValues :
           LindenHandlePush(key, value)
    \/ \E key \in LindenKeys, value \in LindenValues : LindenPush(key, value)
    \/ LindenHandleTryPop
    \/ LindenTryPop

LindenSpec == LindenInit /\ [][LindenNext]_vars

(***************************************************************************)
(* The MultiQueue on its own: handles that push and pop in any order       *)
(* (design document, section 4.1).                                         *)
(***************************************************************************)
\* the number of pushes of a run, and the largest key pushed
MaxPushes == 2
MaxPushKey == 2

\* one handle more than MaxThreads: with three internal queues a pop can
\* sample two of them and miss the third
MqInit ==
    /\ num_threads = MaxThreads + 1
    /\ config \in Configs
    /\ pc = [t \in Threads(num_threads) |-> "ready"]
    /\ ipq = [k \in Queues |-> << >>]
    /\ ins_buf = [t \in Threads(num_threads) |-> << >>]
    /\ del_buf = [t \in Threads(num_threads) |-> << >>]
    /\ scan = [t \in Threads(num_threads) |-> 0]
    /\ retval = [t \in Threads(num_threads) |-> << 0, 0 >>]
    /\ all_pushed = << >>
    /\ all_popped = << >>
    /\ seen_empty = [t \in Threads(num_threads) |-> FALSE]
    /\ empty_unwitnessed = FALSE
    /\ SsspIdle
    /\ TpIdle
    /\ RestIdle

\* every internal queue of q is empty: no committed pair is waiting
AllQueuesEmpty(q) == \A k \in DOMAIN q : q[k] = << >>

\* the handles with a pop in progress note an instant of emptiness; t starts
\* its pop with this step when starting is TRUE
Observe(t, starting) ==
    seen_empty' =
        [u \in Threads(num_threads) |->
            IF u = t /\ starting
            THEN AllQueuesEmpty(ipq) \/ AllQueuesEmpty(ipq')
            ELSE IF pc[u] = "scan" THEN seen_empty[u] \/ AllQueuesEmpty(ipq')
            ELSE seen_empty[u]]

\* push(h, {key, value})
MqPush(t) ==
    /\ At(t, "ready")
    /\ Len(all_pushed) < MaxPushes
    /\ \E key \in 1 .. MaxPushKey :
          /\ MQPush(t, << key, t >>)
          /\ all_pushed' = SortedInsert(all_pushed, << key, t >>)
    /\ Observe(t, FALSE)
    /\ UNCHANGED << notMq, num_threads, config, pc, retval, del_buf, scan,
                    all_popped, empty_unwitnessed >>

\* try_pop(h): the call up to its first look at the internal queues
MqTryPop(t) ==
    /\ At(t, "ready")
    /\ MQPopStart(t, "ready", "scan")
    /\ all_popped' = IF pc'[t] = "ready" THEN SortedInsert(all_popped, retval'[t])
                     ELSE all_popped
    /\ Observe(t, TRUE)
    /\ UNCHANGED << notMq, num_threads, config, all_pushed, empty_unwitnessed >>

\* extract_from_partition(h): the call up to its scan
MqPartition(t) ==
    /\ At(t, "ready")
    /\ MQPartitionStart(t, "ready", "scan")
    /\ all_popped' = IF pc'[t] = "ready" THEN SortedInsert(all_popped, retval'[t])
                     ELSE all_popped
    /\ Observe(t, TRUE)
    /\ UNCHANGED << notMq, num_threads, config, all_pushed, empty_unwitnessed >>

\* the empty protocol of the pop in progress: one internal queue per step;
\* after the last one the call returns empty
MqScan(t) ==
    /\ At(t, "scan")
    /\ MQScanStep(t, "ready", "ready")
    /\ all_popped' = IF ipq[scan[t]] # << >>
                     THEN SortedInsert(all_popped, retval'[t])
                     ELSE all_popped
    /\ Observe(t, FALSE)
    /\ empty_unwitnessed' =
          (empty_unwitnessed
             \/ (ipq[scan[t]] = << >> /\ pc'[t] = "ready" /\ ~seen_empty'[t]))
    /\ UNCHANGED << notMq, num_threads, config, all_pushed >>

MqStep(t) ==
       \/ MqPush(t)
       \/ MqTryPop(t)
       \/ MqPartition(t)
       \/ MqScan(t)

MqNext == \E t \in Threads(MaxThreads + 1) : MqStep(t)

MqSpec == MqInit /\ [][MqNext]_vars

(***************************************************************************)
(* Properties.                                                             *)
(***************************************************************************)
\* every worker has left Task::run
AllDone == \A t \in Threads(num_threads) : pc[t] = "done"

\* the arcs of g as <<source, index into edges>>
Arcs(g) ==
    { a \in Nodes(g) \X (0 .. (Len(g.edges) - 1)) :
        NodeOffset(g, a[1]) <= a[2] /\ a[2] < NodeOffset(g, a[1] + 1) }

Min(S) == CHOOSE x \in S : \A y \in S : x <= y

\* k rounds of Bellman-Ford over the unbounded integers; -1 is "unreachable"
RECURSIVE BellmanFord(_, _, _)
BellmanFord(g, d, k) ==
    IF k = 0 THEN d
    ELSE BellmanFord(g,
            [v \in Nodes(g) |->
                LET into == { a \in Arcs(g) :
                                EdgeAt(g, a[2])[1] = v /\ d[a[1]] # -1 }
                    cands == { d[a[1]] + EdgeAt(g, a[2])[2] : a \in into }
                                \cup (IF d[v] = -1 THEN {} ELSE { d[v] })
                IN IF cands = {} THEN -1 ELSE Min(cands)],
            k - 1)

\* the true shortest-path distances from node 0
ShortestDistance(g) ==
    BellmanFord(g, [v \in Nodes(g) |-> IF v = 0 THEN 0 ELSE -1], NumNodes(g))

\* C1: once all workers have left Task::run, distances[v] is the true
\* shortest-path distance from node 0 for every node v reachable from it.
ResultCorrect ==
    AllDone =>
        \A v \in Nodes(graph) :
            ShortestDistance(graph)[v] # -1
                => distances[v] = ShortestDistance(graph)[v]

\* C2: once an idle() call has returned true, in every state from then on
\* the queue (buffers included) holds nothing and every worker waits in
\* idle() in state 2 or has left Task::run: none holds or processes a popped
\* entry and none pushes.
NoPrematureTermination ==
    returned_true =>
        /\ QueueContent = << >>
        /\ \A t \in Threads(num_threads) : InIdleWait(t) /\ idle_state[t] = 2

\* C2's case: a run of MaxThreads workers in which one worker has returned
\* true from idle() and another is still waiting in it
TerminationSeen ==
    /\ returned_true
    /\ num_threads = MaxThreads
    /\ \E t \in Threads(num_threads) : pc[t] # "done"

\* C3: a worker that was in state 2 when another worker pushed has left
\* idle() with false before any idle() call returns true.
WakeGuarantee == returned_true => \A t \in Threads(num_threads) : ~ owed[t]

\* C4: under fair scheduling every worker eventually leaves Task::run.
SsspTerminates == <> AllDone

\* C4's case: a run of MaxThreads workers on the buffered queue has ended
\* with node 2 of the diamond reached over its two-arc path
AllLeft ==
    /\ AllDone
    /\ num_threads = MaxThreads
    /\ config = "FullBuffering"
    /\ graph = GraphDiamond
    /\ distances[1] = 2

\* C5: once idle_counter equals 2 * num_threads it is never modified again,
\* no worker pops or pushes any more, and every worker leaves through idle().
TerminatesOnce ==
    /\ [][(idle_counter = 2 * num_threads)
            => /\ idle_counter' = idle_counter
               /\ QueueContent' = QueueContent
               /\ distances' = distances
               /\ \A t \in Threads(num_threads) : InIdleWait(t)']_vars
    /\ ((idle_counter = 2 * num_threads) ~> AllDone)

\* C5's case: idle_counter is 2 * num_threads in a run of MaxThreads workers,
\* one has returned true and another has not yet read the counter
CounterFull ==
    /\ idle_counter = 2 * num_threads
    /\ num_threads = MaxThreads
    /\ \E t, u \in Threads(num_threads) : pc[t] = "done" /\ pc[u] = "idle_state"

\* what a worker's state contributes to idle_counter
Contribution(t) ==
    IF idle_state[t] = 1 THEN 1 ELSE IF idle_state[t] = 2 THEN 2 ELSE 0

RECURSIVE SumOver(_, _)
SumOver(f, S) ==
    IF S = {} THEN 0
    ELSE LET x == CHOOSE y \in S : TRUE IN f[x] + SumOver(f, S \ { x })

ContributionSum ==
    SumOver([t \in Threads(num_threads) |-> Contribution(t)],
            Threads(num_threads))

\* no worker is between a store to an IdleState and the update of
\* idle_counter that belongs to it (lines 152-153, 159-160, 63-64, 132-139)
Settled ==
    \A t \in Threads(num_threads) :
        pc[t] \notin { "probe_add", "probe_active", "idle_add", "wake_sub" }

\* C6 as stated: in every reachable state idle_counter is the sum of the
\* workers' contributions (1 for probing, 2 for idle, 0 for active).
AccountingAlways == idle_counter = ContributionSum

\* C6, amended: idle_counter is the sum of the workers' contributions (1 for
\* probing, 2 for idle, 0 for active and for wakeup) in every state in which
\* no worker is between a store to an IdleState and the matching update of
\* idle_counter.
AccountingSettled == Settled => idle_counter = ContributionSum

\* C6's case: a settled state with one worker idle and another probing
IdleAndProbing ==
    /\ Settled
    /\ \E t, u \in Threads(num_threads) : idle_state[t] = 2 /\ idle_state[u] = 1

\* C7: the pairs the pops have returned together with the pairs still in
\* the queue (internal queues, insertion and deletion buffers) are exactly
\* the pushed pairs, as multisets, in every state.
Containment == InsertAll(QueueContent, all_popped) = all_pushed

\* C7's case: all pushes are done, one pair has been returned and another
\* sits in a deletion buffer
PoppedAndBuffered ==
    /\ Len(all_pushed) = MaxPushes
    /\ all_popped # << >>
    /\ \E t \in Threads(num_threads) : del_buf[t] # << >>

\* C8: a pop returns empty only if at some instant during the call no
\* committed pair was waiting in any internal queue.
EmptinessLinearizable == ~ empty_unwitnessed

\* a finished run of the given mode
Finished(mode) ==
    /\ exit_code = "exit0"
    /\ settings.work_mode = mode

\* C9: when a mixed-mode run has finished, the measured phase has made as
\* many successful pops as pushes and the queue holds
\* prefill_per_thread * num_threads pairs.
MixedAccounting ==
    Finished("Mixed") =>
        /\ measured_pops = measured_pushes
        /\ Len(QueueContent) = settings.prefill_per_thread * num_threads

\* C9's case: a finished mixed run of MaxThreads workers with prefill in
\* which every key of the workload was pushed
MixedRunDone ==
    /\ Finished("Mixed")
    /\ num_threads = MaxThreads
    /\ settings.prefill_per_thread = MaxPrefill
    /\ measured_pushes = MaxElements * MaxThreads

\* C10: when a split-mode run has finished, result.num_pops is
\* (prefill_per_thread + elements_per_thread) * num_threads, and the
\* assertion of line 230 held for every popper.
SplitAccounting ==
    Finished("Split") => (result_num_pops = NumElements /\ ~ assert_failed)



\* the workers that pop in split mode
Poppers == { t \in Threads(num_threads) : t >= settings.num_push_threads }

\* C11, first half: a popper is past its loop only when result.num_pops has
\* reached (prefill_per_thread + elements_per_thread) * num_threads.
PopperStopsAtTarget ==
    (exit_code # "start" /\ settings.work_mode = "Split") =>
        \A t \in Poppers :
            pc[t] \in { "assert", "done" } => result_num_pops >= NumElements

\* C11: under fair scheduling every popper of a split-mode run eventually
\* leaves its loop.
PoppersLeave ==
    (exit_code = "running" /\ settings.work_mode = "Split")
        ~> (\A t \in Poppers : pc[t] = "done")

\* the workers that call execute_synchronized_blockwise
Claimers ==
    IF settings.work_mode = "Mixed" THEN Threads(num_threads)
    ELSE { t \in Threads(num_threads) : t < settings.num_push_threads }

\* every call of execute_synchronized_blockwise has returned
ClaimingOver ==
    /\ exit_code \in { "running", "exit0" }
    /\ \A t \in Claimers : pc[t] = "done"

\* the blocks handed to f, each with the worker and its position in the
\* worker's history
Handed == UNION { { << t, k >> : k \in DOMAIN claimed[t] } : t \in Threads(num_threads) }

BlockOf(x) == claimed[x[1]][x[2]]
Indices(blk) == blk[1] .. (blk[1] + blk[2] - 1)

\* how often key index i has been pushed in the measured phase
RECURSIVE Occurrences(_, _)
Occurrences(log, i) ==
    IF log = << >> THEN 0
    ELSE (IF Head(log) = i THEN 1 ELSE 0) + Occurrences(Tail(log), i)

PushCount(i) ==
    SumOver([t \in Threads(num_threads) |-> Occurrences(push_log[t], i)],
            Threads(num_threads))

\* C12: the blocks handed to f are non-empty, lie inside [0, total), are
\* pairwise disjoint, and once every claiming worker is finished their union
\* is [0, total); no key index is pushed twice, and once the claiming workers
\* are finished every key index has been pushed exactly once.
BlockwiseCover ==
    exit_code \in { "running", "exit0" } =>
        /\ \A x \in Handed :
               /\ BlockOf(x)[2] >= 1
               /\ Indices(BlockOf(x)) \subseteq 0 .. (NumKeys - 1)
        /\ \A x, y \in Handed :
               x # y => Indices(BlockOf(x)) \cap Indices(BlockOf(y)) = { }
        /\ \A i \in 0 .. (NumKeys - 1) : PushCount(i) <= 1
        /\ ClaimingOver =>
               /\ UNION { Indices(BlockOf(x)) : x \in Handed } = 0 .. (NumKeys - 1)
               /\ \A i \in 0 .. (NumKeys - 1) : PushCount(i) = 1

\* the blockwise dispatch of a key array whose size is not a multiple of the
\* block size is over
BlocksHandedOut ==
    /\ ClaimingOver
    /\ NumKeys >= 1
    /\ NumKeys % block_size # 0
    /\ Handed # { }

\* a mixed-mode run all of whose workers have finished
MixedOver ==
    /\ exit_code \in { "running", "exit0" }
    /\ settings.work_mode = "Mixed"
    /\ \A t \in Threads(num_threads) : pc[t] = "done"

\* the indices of worker t's own slice of the key array
OwnSlice(t) ==
    (t * settings.elements_per_thread)
        .. ((t + 1) * settings.elements_per_thread - 1)

\* the set of the entries of a sequence
Range(s) == { s[k] : k \in DOMAIN s }

\* C13 as stated: at the end of a mixed-mode run every worker has pushed
\* exactly elements_per_thread keys, those of its own slice
\* [t * E, (t + 1) * E) of the key array.
OwnStreamOnly ==
    MixedOver =>
        \A t \in Threads(num_threads) :
            /\ Len(push_log[t]) = settings.elements_per_thread
            /\ Range(push_log[t]) = OwnSlice(t)

\* C13, amended: in mixed mode a worker pushes the key indices of the blocks
\* it has claimed and no others, and at the end of the run the workers
\* together have performed num_threads * elements_per_thread pushes and as
\* many successful pops.
MixedWorkload ==
    (exit_code \in { "running", "exit0" } /\ settings.work_mode = "Mixed") =>
        /\ \A t \in Threads(num_threads) :
               Range(push_log[t]) \subseteq
                   UNION { Indices(claimed[t][k]) : k \in DOMAIN claimed[t] }
        /\ MixedOver =>
               /\ \A t \in Threads(num_threads) :
                      Range(push_log[t]) =
                          UNION { Indices(claimed[t][k]) : k \in DOMAIN claimed[t] }
               /\ SumOver([t \in Threads(num_threads) |-> Len(push_log[t])],
                          Threads(num_threads)) = NumKeys
               /\ measured_pops = NumKeys

\* a mixed-mode run is over in which a worker has pushed a key of another
\* worker's slice
PushedForeignKey ==
    /\ MixedOver
    /\ \E t \in Threads(num_threads) : ~ (Range(push_log[t]) \subseteq OwnSlice(t))

\* every worker has returned from update_work_time
AllUpdated ==
    /\ work_time # << >>
    /\ \A t \in Threads(num_threads) : pc[t] = "done"

\* C14: after every worker's update_work_time, start_time is the least start
\* and end_time the greatest end the workers reported.
EnvelopeCorrect ==
    AllUpdated =>
        /\ \E t \in Threads(num_threads) : start_time = work_time[t][1]
        /\ \A t \in Threads(num_threads) : start_time <= work_time[t][1]
        /\ \E t \in Threads(num_threads) : end_time = work_time[t][2]
        /\ \A t \in Threads(num_threads) : end_time >= work_time[t][2]

\* both runs have generated the worker's whole slice
BothGenerated ==
    /\ key_run # << >>
    /\ \A r \in Runs : Len(key_out[r]) = key_run.elements_per_thread

ListedError ==
    \/ settings.min_key > settings.max_key
    \/ num_threads <= 0
    \/ /\ settings.work_mode = "Split"
       /\ \/ settings.num_push_threads < 0
          \/ settings.num_push_threads > num_threads
          \/ settings.num_push_threads = 0 /\ settings.elements_per_thread > 0

\* C16: once main is past the validation, the program has exited with status
\* 1 exactly if the configuration is one of the listed errors; then no queue
\* and no key array exist and no worker was started; every other
\* configuration runs, with its queue and its workers.
ConfigRejection ==
    (settings # << >> /\ exit_code # "start") =>
        /\ exit_code = "exit1" <=> ListedError
        /\ exit_code = "exit1" =>
               /\ ipq = << >>
               /\ keys = << >>
               /\ \A t \in DOMAIN pc : pc[t] = "off"
               /\ measured_pushes = 0 /\ measured_pops = 0
        /\ exit_code # "exit1" =>
               /\ DOMAIN ipq = Queues
               /\ \A t \in Threads(num_threads) : pc[t] # "off"

\* a split-mode configuration with workers, a valid key range, keys to push
\* and no push thread has been rejected
SplitWithoutPushersRejected ==
    /\ exit_code = "exit1"
    /\ num_threads >= 1
    /\ settings.min_key <= settings.max_key
    /\ settings.work_mode = "Split"
    /\ settings.num_push_threads = 0
    /\ settings.elements_per_thread > 0

\* main is past the validation of a split-mode configuration without
\* prefill and without push threads
BoundaryConfig ==
    /\ settings # << >>
    /\ exit_code # "start"
    /\ settings.prefill_per_thread = 0
    /\ settings.work_mode = "Split"
    /\ settings.num_push_threads = 0

\* C17 as stated: every split-mode configuration with prefill 0 and no push
\* thread is rejected, whatever elements_per_thread is.
BoundaryAlwaysRejected == BoundaryConfig => exit_code = "exit1"

\* C17, amended: a split-mode configuration with prefill 0 and no push thread
\* is rejected exactly if elements_per_thread > 0 (or the number of threads
\* or the key range is invalid); with elements_per_thread = 0 it is accepted,
\* and its run pops nothing.
BoundaryRejection ==
    BoundaryConfig =>
        /\ exit_code = "exit1" <=>
               \/ settings.elements_per_thread > 0
               \/ num_threads <= 0
               \/ settings.min_key > settings.max_key
        /\ measured_pops = 0

\* the run of a split-mode configuration with no prefill, no push thread and
\* no elements has ended with status 0
EmptySplitRunDone ==
    /\ BoundaryConfig
    /\ settings.elements_per_thread = 0
    /\ exit_code = "exit0"

\* a run whose key range is the single key min_key
Degenerate ==
    /\ settings # << >>
    /\ exit_code \in { "running", "exit0" }
    /\ settings.min_key = settings.max_key

\* C18, the keys: with min_key = max_key every key generate_workload has
\* written and every pair prefill or the measured phase has pushed or popped
\* is min_key.
DegenerateKeys ==
    Degenerate =>
        /\ \A t \in Threads(num_threads) :
               pc[t] \notin { "off", "gen" } =>
                   \A i \in OwnSlice(t) : keys[i + 1] = settings.min_key
        /\ \A k \in DOMAIN QueueContent :
               QueueContent[k] = << settings.min_key, settings.min_key >>
        /\ \A t \in Threads(num_threads) :
               retval[t] \in { << 0, 0 >>, << settings.min_key, settings.min_key >> }

\* C18: with min_key = max_key all keys are min_key, and a finished run has
\* popped what the accounting asks for: in mixed mode as many pairs as the
\* measured phase pushed, the prefill staying in the queue, in split mode
\* all (prefill_per_thread + elements_per_thread) * num_threads pairs.
DegenerateRange ==
    /\ DegenerateKeys
    /\ (Degenerate /\ Finished("Mixed")) =>
           /\ measured_pops = measured_pushes
           /\ Len(QueueContent) = settings.prefill_per_thread * num_threads
    /\ (Degenerate /\ Finished("Split")) =>
           /\ result_num_pops = NumElements
           /\ QueueContent = << >>

\* C19, safety half: in the throughput build no worker starts more than one
\* operation after the store to stop_flag.
OneFurtherOperation ==
    stress_build = "Throughput" =>
        \A t \in Threads(num_threads) : ops_after_stop[t] <= 1

\* C19: in the throughput build, after main has set stop_flag no worker
\* starts more than one further operation, and eventually every worker is
\* through the final barrier and coordinator.join() has returned.
CooperativeStop ==
    /\ [] OneFurtherOperation
    /\ (stress_build = "Throughput" /\ stop_flag) ~> (main_pc = "exit")

\* join has returned in a throughput run in which a worker was inside the
\* loop when stop_flag was set and performed its one further operation
StoppedAfterOneMore ==
    /\ stress_build = "Throughput"
    /\ main_pc = "exit"
    /\ num_threads = MaxThreads
    /\ \E t \in Threads(num_threads) : ops_after_stop[t] = 1

\* the deletions all workers have logged
LoggedDeletions ==
    SumOver([t \in Threads(num_threads) |-> Len(local_deletions[t])],
            Threads(num_threads))

\* the pops all workers have completed without a failure
SuccessfulPops ==
    SumOver([t \in Threads(num_threads) |->
                 num_local_deletions[t] - num_local_failed_deletions[t]],
            Threads(num_threads))

\* C20: in the quality build a worker is past the operation loop only when
\* num_delete_operations has reached min_num_delete_operations; the counter
\* is the number of logged deletions, which is the number of successful
\* pops (a failed pop adds nothing); when the run is over at least
\* min_num_delete_operations deletions are logged.
MinDeletionsDrive ==
    stress_build = "Quality" =>
        /\ \A t \in Threads(num_threads) :
               pc[t] \in { "sync2", "done" } =>
                   num_delete_operations >= stress_settings.min_num_delete_operations
        /\ num_delete_operations = LoggedDeletions
        /\ \A t \in Threads(num_threads) :
               pc[t] \notin { "deleted", "failed" }
           => LoggedDeletions = SuccessfulPops
        /\ main_pc = "exit" =>
               LoggedDeletions >= stress_settings.min_num_delete_operations

\* a quality run with a positive minimum is over, and one of its pops failed
QualityRunDone ==
    /\ stress_build = "Quality"
    /\ main_pc = "exit"
    /\ stress_settings.min_num_delete_operations >= 1
    /\ \E t \in Threads(num_threads) : num_local_failed_deletions[t] >= 1

\* the element ids that fit below the thread id's bits
FitsElemId(e) == e < 2 ^ (ValueDigits - ThreadIdBits)

\* C21: for thread ids of a run that passes the thread-count check and
\* element ids below 2^(value bits - thread id bits), unpacking a packed
\* value gives the thread id and the element id back, and two different
\* pairs have different values.
PackingRoundTrips ==
    /\ \A k \in DOMAIN pack_out :
           FitsElemId(pack_in[k][2]) => pack_out[k] = pack_in[k]
    /\ \A j, k \in DOMAIN pack_value :
           (/\ FitsElemId(pack_in[j][2])
            /\ FitsElemId(pack_in[k][2])
            /\ pack_in[j] # pack_in[k])
               => pack_value[j] # pack_value[k]

\* two different pairs with the largest thread id the check lets through
\* and the largest element id that fits have been packed and unpacked
LargestIdsUnpacked ==
    /\ DOMAIN pack_out = Pairs
    /\ pack_in[1] = << 2 ^ ThreadIdBits - 2, 2 ^ (ValueDigits - ThreadIdBits) - 1 >>
    /\ pack_in[2] # pack_in[1]
    /\ FitsElemId(pack_in[2][2])

\* C22: a step never raises distances[v]: every write of the
\* compare-exchange loop (and the store of the source's 0) replaces a
\* distance by a strictly smaller one, in every interleaving.
DistancesMonotone ==
    [][\A v \in DOMAIN distances : distances'[v] <= distances[v]]_vars

\* two workers are in the compare-exchange loop for the same node, which
\* has already been lowered by an exchange, and one of them holds an old
\* distance the other's exchange has replaced
ConcurrentRelaxation ==
    \E t, u \in Threads(num_threads) :
        /\ t # u
        /\ pc[t] = "cas"
        /\ pc[u] \in { "cas", "push" }
        /\ Target(t) = Target(u)
        /\ distances[Target(t)] < InfDistance
        /\ old_target_distance[t] > distances[Target(t)]

\* C23: in every state, each internal queue whose try-lock is not held has
\* a top-key cache equal to the minimum key of its heap, or to the empty
\* marker when the heap is empty.
TopKeyCacheInvariant ==
    \A i \in DOMAIN lock :
        lock[i] = -1 => top_key[i] = TrueTop(heap[i])

\* one queue is unlocked after operations on it and caches the key of its
\* non-empty heap, while the cache of a locked queue is out of date
CacheStaleOnlyUnderLock ==
    \E i, j \in DOMAIN lock :
        /\ lock[i] = -1
        /\ heap[i] # << >>
        /\ top_key[i] = heap[i][1]
        /\ lock[j] # -1
        /\ top_key[j] # TrueTop(heap[j])
        /\ heap_ops >= 3

\* worker t holds a popped entry whose key is above its node's distance
StaleAt(t) == pc[t] = "found" /\ retval[t][1] > distances[retval[t][2]]

\* C24: the step of a worker that has popped a stale entry (d > distances[u])
\* takes it to the next pop and changes nothing else: no distance, no queue
\* content, no idle state, no idle_counter, no processed-node count.
StaleDiscarded ==
    [][\A t \in DOMAIN pc :
           (StaleAt(t) /\ pc'[t] # pc[t])
               => /\ pc'[t] = "pop"
                  /\ \A u \in DOMAIN pc \ { t } : pc'[u] = pc[u]
                  /\ UNCHANGED << distances, queueVars, retval, idle_state,
                                  idle_counter, num_local_processed_nodes,
                                  pushes, wakes, pushed, wake_i >>]_vars

\* the run is over with an empty queue, and fewer nodes were processed than
\* pairs were pushed: a popped entry was dropped as stale
StaleEntryDropped ==
    /\ graph # << >>
    /\ \A t \in DOMAIN pc : pc[t] = "done"
    /\ ContentSet = {}
    /\ SumOver(num_local_processed_nodes, DOMAIN pc) < Cardinality(DOMAIN pushes)

\* worker t is past line 120 with old > new: its push of line 121 is next
AboutToPush(t) == pc[t] = "push"

\* a step of worker t inside the compare-exchange loop
ExchangeStep(t) ==
    /\ pc[t] = "cas"
    /\ \/ pc'[t] # pc[t]
       \/ old_target_distance'[t] # old_target_distance[t]

\* every pushed pair was pushed once, and the workers about to push hold
\* different pairs that have not been pushed
NoDoublePush ==
    /\ \A e \in DOMAIN pushes : pushes[e] = 1
    /\ \A t \in DOMAIN pc :
           AboutToPush(t)
               => /\ << NewTargetDistance(t), Target(t) >> \notin DOMAIN pushes
                  /\ distances[Target(t)] <= NewTargetDistance(t)
                  /\ \A u \in DOMAIN pc \ { t } :
                         AboutToPush(u)
                             => << NewTargetDistance(u), Target(u) >>
                                    # << NewTargetDistance(t), Target(t) >>

\* the steps around the push of line 121
PushSteps ==
    \A t \in DOMAIN pc :
        \* the push is reached only by an own exchange that replaced a
        \* strictly greater distance of the target by the new one
        /\ (pc'[t] = "push" /\ pc[t] # "push")
               => /\ pc[t] = "cas"
                  /\ distances[Target(t)] > NewTargetDistance(t)
                  /\ distances' = [distances EXCEPT
                                       ![Target(t)] = NewTargetDistance(t)]
        \* any other step of the loop writes no distance and pushes nothing;
        \* with the target at the new distance or below the loop is left
        /\ (ExchangeStep(t) /\ pc'[t] # "push")
               => /\ UNCHANGED << distances, pushes, ipq, ins_buf >>
                  /\ distances[Target(t)] <= NewTargetDistance(t)
                         => old_target_distance'[t] <= NewTargetDistance(t)
        \* a successful exchange is followed by the push of that pair
        /\ (AboutToPush(t) /\ pc'[t] # pc[t])
               => /\ pushes' = AddPush(pushes, << NewTargetDistance(t), Target(t) >>)
                  /\ << NewTargetDistance(t), Target(t) >> \in ContentSet'
                  /\ pushed'[t]

\* C25: a worker pushes (d', v) exactly when its own compare-exchange
\* replaced a strictly greater distances[v] by d'; a worker that finds
\* distances[v] at d' or below neither writes nor pushes; no pair is pushed
\* twice, so one committed decrease has one push.
PushOnOwnDecrease ==
    /\ [] NoDoublePush
    /\ [][PushSteps]_vars
    /\ [][pushes' # pushes
              => \E t \in DOMAIN pc :
                     pc[t] \in { "push", "begin" } /\ pc'[t] # pc[t]]_vars

\* a pair for node v has been pushed by the worker that lowered
\* distances[v], and another worker is in the loop for the same node with
\* an older, greater distance loaded and a candidate that no longer lowers it
LostTheExchange ==
    \E u \in DOMAIN pc :
        /\ pc[u] = "cas"
        /\ << distances[Target(u)], Target(u) >> \in DOMAIN pushes
        /\ old_target_distance[u] > NewTargetDistance(u)
        /\ distances[Target(u)] <= NewTargetDistance(u)

\* worker t is in the edge loop of a popped entry that was not stale
Relaxing(t) == pc[t] \in { "relax", "cas", "push" }

\* C26: every entry (d, u) in the queue, and every popped entry not yet
\* looked at, has d >= distances[u]; so for a popped entry that is not
\* stale the distance the code loaded at pop time equals the popped key d,
\* and the candidate it computes for an edge of weight w is d + w.
CandidateFromKey ==
    /\ \A e \in ContentSet : e[1] >= distances[e[2]]
    /\ \A t \in DOMAIN pc :
           /\ pc[t] = "found" => retval[t][1] >= distances[retval[t][2]]
           /\ Relaxing(t) => current_distance[t] = retval[t][1]
           /\ pc[t] \in { "cas", "push" }
                  => NewTargetDistance(t) =
                         (retval[t][1] + EdgeAt(graph, edge_i[t])[2]) % DistMod

\* a worker computes a candidate from the popped entry of a node other than
\* the source while the queue holds an entry that has become stale
CandidateComputed ==
    \E t \in DOMAIN pc :
        /\ pc[t] = "cas"
        /\ retval[t][2] # 0
        /\ retval[t][1] = current_distance[t]
        /\ \E e \in ContentSet : e[1] > distances[e[2]]

\* the wakers between their successful exchange on worker i's state and
\* their store of 0 to it
Wakers(i) ==
    { t \in DOMAIN pc : pc[t] \in { "wake_sub", "wake_store" } /\ wake_i[t] = i }

\* per idle episode of worker i: at most one exchange 2 -> 3 succeeded, one
\* waker at most is between that exchange and its store, the state is 3
\* exactly in between, and the worker sees state 0 in idle() only after one
\* exchange, one fetch_sub(2) and one store
OneWakePerEpisode ==
    \A i \in DOMAIN pc :
        /\ wakes[i][1] <= 1
        /\ wakes[i][2] <= wakes[i][1]
        /\ wakes[i][3] <= wakes[i][2]
        /\ Cardinality(Wakers(i)) <= 1
        /\ idle_state[i] = 3 <=> Wakers(i) # {}
        /\ \A t \in Wakers(i) :
               wakes[i] = IF pc[t] = "wake_sub" THEN << 1, 0, 0 >> ELSE << 1, 1, 0 >>
        /\ (pc[i] \in { "idle_counter", "idle_state" } /\ idle_state[i] = 0)
               => wakes[i] = << 1, 1, 1 >>

\* idle_counter goes down by 2 only in the step after a successful
\* exchange, and an idle worker's state goes to 0 only by the store of the
\* waker whose exchange succeeded
WakeSteps ==
    /\ idle_counter' = (idle_counter + SizeMod - 2) % SizeMod
           => \E t \in DOMAIN pc :
                  /\ pc[t] = "wake_sub"
                  /\ pc'[t] = "wake_store"
                  /\ idle_state[wake_i[t]] = 3
                  /\ wakes[wake_i[t]] = << 1, 0, 0 >>
    /\ \A i \in DOMAIN pc :
           (idle_state[i] \in { 2, 3 } /\ idle_state'[i] = 0)
               => \E t \in Wakers(i) :
                      /\ t # i
                      /\ pc[t] = "wake_store"
                      /\ pc'[t] = "wake"
                      /\ wakes[i] = << 1, 1, 0 >>
    /\ \A t \in DOMAIN pc :
           (pc[t] = "wake_sub" /\ pc'[t] # pc[t])
               => idle_counter' = (idle_counter + SizeMod - 2) % SizeMod

\* C27: in one idle episode of a worker (from its store of state 2 until it
\* leaves idle()) at most one waker's exchange 2 -> 3 succeeds, idle_counter
\* is decremented by 2 once per successful exchange and never otherwise, and
\* only that waker stores 0.
NoDoubleWake == [] OneWakePerEpisode /\ [][WakeSteps]_vars

\* one waker is between its successful exchange on an idle worker's state and
\* its store of 0, and a second waker is at its exchange on the same state
TwoWakersOneIdler ==
    \E t, u, i \in DOMAIN pc :
        /\ t # u
        /\ pc[t] = "wake_store"
        /\ pc[u] = "wake"
        /\ wake_i[t] = i
        /\ wake_i[u] = i
        /\ idle_state[i] = 3

\* worker t is in the waking loop at worker i
WakingAt(t, i) ==
    /\ t # i
    /\ pc[t] \in { "wake", "wake_retry", "wake_sub", "wake_store" }
    /\ wake_i[t] = i

\* C28: while a worker's IdleState is probing (1) no waker is past a
\* successful exchange on it, a step of a waker that looks at it changes
\* neither that state nor idle_counter, and the state leaves 1 only by a
\* step of the probing worker itself.
ProbingUndisturbed ==
    /\ [] (\A i \in DOMAIN pc : idle_state[i] = 1 => Wakers(i) = {})
    /\ [][\A i \in DOMAIN pc :
              idle_state[i] = 1
                  => /\ idle_state'[i] # 1 => pc'[i] # pc[i]
                     /\ \A t \in DOMAIN pc :
                            (WakingAt(t, i) /\ pc'[i] = pc[i])
                                => /\ idle_state'[i] = 1
                                   /\ idle_counter' = idle_counter]_vars

\* a waker that pushed is at a worker that is probing: the worker has added
\* its 1 to idle_counter and scans the queue
WakerMeetsProbing ==
    \E t, i \in DOMAIN pc :
        /\ WakingAt(t, i)
        /\ pc[t] = "wake"
        /\ idle_state[i] = 1
        /\ pc[i] = "probe_scan"
        /\ idle_counter > 0

\* worker t is at the exchange of line 132 on the state of worker i, which
\* is probing
AtProbing(t, i) ==
    /\ t # i
    /\ i \in DOMAIN pc
    /\ pc[t] = "wake"
    /\ wake_i[t] = i
    /\ idle_state[i] = 1

\* C29 as stated: the step of a waker that finds a worker probing takes the
\* waker to the next worker.
WakerMovesOn ==
    [][\A t, i \in DOMAIN pc :
           (AtProbing(t, i) /\ pc'[t] # pc[t])
               => /\ pc'[t] = "wake"
                  /\ wake_i'[t] = i + 1]_vars

\* the steps of a waker at a probing worker: the failed exchange leads to
\* the retry of lines 135-136 and back to the same worker, with no write to
\* a shared variable; the waker goes past a worker only after an exchange
\* that found that worker's state at 0, 2 or 3
WaitSteps ==
    \A t \in DOMAIN pc :
        /\ \A i \in DOMAIN pc :
               (AtProbing(t, i) /\ pc'[t] # pc[t])
                   => /\ pc'[t] = "wake_retry"
                      /\ UNCHANGED << wake_i, idle_state, idle_counter, distances,
                                      queueVars >>
        /\ (pc[t] = "wake_retry" /\ pc'[t] # pc[t])
               => /\ pc'[t] = "wake"
                  /\ UNCHANGED << wake_i, idle_state, idle_counter, distances,
                                  queueVars >>
        /\ (pc[t] \in { "wake", "wake_retry" } /\ wake_i'[t] = wake_i[t] + 1
                /\ wake_i[t] # t)
               => /\ pc[t] = "wake"
                  /\ idle_state[wake_i[t]] \in { 0, 3 }

\* C29, amended: a waker that finds a worker probing writes nothing, yields
\* and tries the exchange on the same worker again, so it passes that worker
\* only once the worker has left probing; under fair scheduling every such
\* wait ends and the waking loop is left.
WakerWaitsForProbing ==
    /\ [][WaitSteps]_vars
    /\ \A t \in AllThreads :
           (t \in DOMAIN pc /\ pc[t] \in { "wake", "wake_retry" })
               ~> (t \in DOMAIN pc /\ pc[t] = "pop")

\* a waker has failed its exchange on a probing worker's state and is in
\* the retry of lines 135-136 while that worker still scans the queue
WakerRetries ==
    \E t, i \in DOMAIN pc :
        /\ t # i
        /\ pc[t] = "wake_retry"
        /\ wake_i[t] = i
        /\ idle_state[i] = 1
        /\ pc[i] = "probe_scan"

\* the pairs in the deletion buffers of the handles other than worker t's
OtherDeletionBuffers(t) ==
    UNION { { del_buf[u][j] : j \in 1 .. Len(del_buf[u]) } :
            u \in DOMAIN del_buf \ { t } }

KeyIndex(n) == key_run.id * key_run.elements_per_thread + (n - 1)

\* every key written for the ascending or the descending distribution lies
\* in [min_key, max_key]
KeysInRange ==
    key_run # << >> /\ key_run.element_distribution # "Uniform" =>
        \A r \in Runs : \A n \in 1 .. Len(key_out[r]) :
            /\ key_run.min_key <= key_out[r][n]
            /\ key_out[r][n] <= key_run.max_key

\* the ascending keys of a worker are non-decreasing in the index
AscendingOrdered ==
    key_run # << >> /\ key_run.element_distribution = "Ascending" =>
        \A r \in Runs : \A n \in 1 .. Len(key_out[r]) - 1 :
            key_out[r][n] <= key_out[r][n + 1]

\* the descending key at index i is the ascending key at index total-1-i
DescendingMirrors ==
    key_run # << >> /\ key_run.element_distribution = "Descending" =>
        \A r \in Runs : \A n \in 1 .. Len(key_out[r]) :
            LET total == key_threads[r] * key_run.elements_per_thread
            IN key_out[r][n] =
                   AscendingKey(key_run, total, total - 1 - KeyIndex(n))

\* C31: for every accepted configuration the ascending and the descending
\* keys, computed in the unsigned arithmetic of the code, lie in
\* [min_key, max_key], the ascending keys are non-decreasing in the index and
\* the descending key at index i is the ascending key at index total-1-i
KeyStreamsAsClaimed == KeysInRange /\ AscendingOrdered /\ DescendingMirrors

\* a worker has written an ascending stream of a key range so wide that
\* the product i * range does not fit the key type
AscendingProductWraps ==
    /\ key_run # << >>
    /\ key_run.element_distribution = "Ascending"
    /\ \E r \in Runs : \E n \in 1 .. Len(key_out[r]) :
           KeyIndex(n) * (key_run.max_key - key_run.min_key + 1) >= SizeMod


(***************************************************************************)
(* C32, C33: distances and path lengths                                    *)
(***************************************************************************)

\* some path from node 0 to node v has length l in the unbounded integers;
\* z bounds the number of arcs of weight 0 that end the path in a row
RECURSIVE IsPathLength(_, _, _, _)
IsPathLength(g, v, l, z) ==
    \/ v = 0 /\ l = 0
    \/ \E a \in Arcs(g) :
          /\ EdgeAt(g, a[2])[1] = v
          /\ EdgeAt(g, a[2])[2] <= l
          /\ IF EdgeAt(g, a[2])[2] > 0
             THEN IsPathLength(g, a[1], l - EdgeAt(g, a[2])[2], NumNodes(g))
             ELSE z > 0 /\ IsPathLength(g, a[1], l, z - 1)

RealPath(g, v, l) == IsPathLength(g, v, l, NumNodes(g))

\* C32: in every reachable state distances[v] is its initial value or the
\* length of a real path from the source to v; so it is never below the true
\* shortest distance, and an unreachable node keeps the initial value
DistancesAreRealPaths ==
    \A v \in Nodes(graph) :
        /\ distances[v] = InfDistance \/ RealPath(graph, v, distances[v])
        /\ ShortestDistance(graph)[v] # -1
               => distances[v] >= ShortestDistance(graph)[v]
        /\ ShortestDistance(graph)[v] = -1 => distances[v] = InfDistance

\* the true shortest distances of the graph are all below the initial value
ShortestBelowInitial ==
    \A v \in Nodes(graph) :
        /\ ShortestDistance(graph)[v] # -1
        /\ ShortestDistance(graph)[v] < InfDistance

\* worker t has computed new_target_distance of line 113 for an edge
Summing(t) == pc[t] \in { "cas", "push" }

\* C33: on a graph whose true shortest distances are all below the initial
\* value, no sum current_distance + weight of a relaxation wraps, so no
\* wrapped value is stored into distances[] or pushed as a key
NoWrapAround ==
    ShortestBelowInitial =>
        \A t \in Threads(num_threads) :
            Summing(t) =>
                current_distance[t] + EdgeAt(graph, edge_i[t])[2] < DistMod


(***************************************************************************)
(* C34: the range of idle_counter                                          *)
(***************************************************************************)

SignedCounter ==
    IF idle_counter > SizeMod - num_threads THEN idle_counter - SizeMod
    ELSE idle_counter

\* the workers that have stored state 2 in idle() and not yet added their 1,
\* while a waker has already subtracted the 2 of this idle episode
WokenEarly ==
    { i \in Threads(num_threads) : pc[i] = "idle_add" /\ wakes[i][2] >= 1 }

InsideIdle(t) == pc[t] \in { "idle_add", "idle_counter", "idle_state" }

\* worker t returns false from idle() in this step
LeavesIdle(t) == pc[t] = "idle_state" /\ pc'[t] = "pop"

\* when a worker returns false from idle(), it is at the load of line 69,
\* past its own two increments, its state is 0, one waker has done the
\* exchange, the subtraction of 2 and the store of 0 for this idle episode
\* and none is still at one of them; so idle_counter holds nothing of the
\* worker any more: in a settled state it is the sum of the contributions
ResumeSteps ==
    \A t \in DOMAIN pc :
        LeavesIdle(t) =>
            /\ idle_state[t] = 0
            /\ wakes[t] = << 1, 1, 1 >>
            /\ Wakers(t) = {}
            /\ Settled' => idle_counter' = ContributionSum'

\* a worker whose state is wakeup (3) is inside idle() and stays there
WakeupStaysInside ==
    \A t \in DOMAIN pc :
        idle_state[t] = 3 => InsideIdle(t) /\ InsideIdle(t)'

\* C35: whenever a worker leaves idle() with false, the waker's subtraction
\* of 2 for that idle episode has taken effect and the worker's own two
\* increments have been applied, so its net contribution to idle_counter is
\* 0 when it next pops; a worker in state wakeup (3) does not leave idle()
\* before the waker has stored active
ResumedContributionRemoved == [][ResumeSteps /\ WakeupStaysInside]_vars

\* a woken worker is about to read its state as active: the waker has
\* subtracted 2 and stored 0
WokenAboutToLeave ==
    \E t \in DOMAIN pc :
        /\ pc[t] = "idle_state"
        /\ idle_state[t] = 0
        /\ wakes[t] = << 1, 1, 1 >>


(***************************************************************************)
(* C36: the ticks of the quality log                                       *)
(***************************************************************************)

\* the n-th deletion record of worker u and the insertion record of the same
\* (owner thread, element id), if the owner has completed it
DeletedAfterInserted(u, n) ==
    LET value == local_deletions[u][n]
        owner == get_thread_id(value)
        elem == get_elem_id(value)
    IN (owner \in DOMAIN insertion_ticks /\ elem < Len(insertion_ticks[owner]))
           => insertion_ticks[owner][elem + 1] <= deletion_ticks[u][n]

\* C36: for every element logged as deleted, the tick of its deletion record
\* is not earlier than the tick of the insertion record of the same (owner
\* thread, element id), the clock never going back
TicksCausallyOrdered ==
    stress_build = "Quality" =>
        \A u \in DOMAIN deletion_ticks :
            \A n \in 1 .. Len(deletion_ticks[u]) : DeletedAfterInserted(u, n)


(***************************************************************************)
(* C37: the pop loops of mixed mode                                        *)
(***************************************************************************)

\* the workers that have pushed and not yet completed the matching pop
Retrying == { t \in DOMAIN pc : pc[t] \in { "mixed_pop", "mixed_scan" } }

\* in the measured phase of a mixed run the queue holds at least the
\* prefilled pairs and one pair for every worker between its push and its
\* successful pop
MixedQueueHolds ==
    (exit_code = "running" /\ settings.work_mode = "Mixed"
        /\ \E t \in DOMAIN pc : pc[t] \in { "mixed_claim", "mixed_push",
                                            "mixed_pop", "mixed_scan" })
        => Len(QueueContent)
               >= settings.prefill_per_thread * num_threads
                    + Cardinality(Retrying)

\* the run finishes: no worker stays in the loop that retries try_pop
MixedRetriesEnd ==
    (exit_code = "running")
        ~> (exit_code = "exit0" /\ \A t \in DOMAIN pc : pc[t] = "done")

\* C37: in the measured phase of mixed mode the queue holds at least
\* prefill_per_thread * num_threads pairs plus one for every worker between
\* its push and its successful pop, so a retrying worker never faces an
\* empty queue, and under fair scheduling every retry loop ends and the
\* phase completes
MixedPopLoopsEnd == [] MixedQueueHolds /\ MixedRetriesEnd


(***************************************************************************)
(* C38: the key shift of the Linden wrapper                                *)
(***************************************************************************)

\* a pushed pair that waits is stored under its key plus 1, as often as it
\* waits: the next successful try_pop that meets it returns it as pushed
StoredShifted(p) ==
    Cardinality(Positions(linden_pending, p))
        = Cardinality(Positions(linden_pq, << p[1] + 1, p[2] >>))

\* try_pop returns false exactly when deletemin_key reported the sentinel
\* key, and a pair it returns was pushed and not yet returned
PopsFaithful ==
    linden_ret # << >> =>
        /\ linden_ret.ok <=> linden_ret.raw # sentinel_
        /\ linden_ret.pushed

\* C38: for every key k smaller than the largest key of the key type a pair
\* pushed as (k, v) is stored under k + 1 and returned by a successful
\* try_pop as (k, v), key 0 included; try_pop returns false exactly when
\* deletemin_key reports the sentinel key and never returns a pair that was
\* not pushed
ShiftRoundTrips ==
    /\ \A i \in 1 .. Len(linden_pending) :
           linden_pending[i][1] < LindenKeyMod - 1
               => StoredShifted(linden_pending[i])
    /\ PopsFaithful

\* C38, amended: the same for every key k with k + 1 smaller than the
\* sentinel key; a pair pushed with k + 1 equal to the sentinel is taken out
\* of the queue by a try_pop that returns false
ShiftRoundTripsBelowSentinel ==
    /\ \A i \in 1 .. Len(linden_pending) :
           linden_pending[i][1] + 1 < sentinel_
               => StoredShifted(linden_pending[i])
    /\ PopsFaithful

\* C38's case: a pair with user key 0 has been pushed and returned, and a
\* pair whose shifted key is the sentinel has been pushed
KeyZeroReturned ==
    /\ linden_ret # << >>
    /\ linden_ret.ok
    /\ linden_ret.first = 0
    /\ \E i \in 1 .. Len(linden_pending) : linden_pending[i][1] + 1 = sentinel_

=============================================================================
